---- MODULE Spec2Model ----
(***************************************************************************)
(* Document proxy and mutation tracking of fire-prox.                      *)
(*                                                                         *)
(* The repository holds three document proxies:                            *)
(*   impl = "async" : BaseFireObject + AsyncFireObject                     *)
(*                    (base_fire_object.py, async_fire_object.py)          *)
(*   impl = "sync"  : FireObject of fire_object.py (boolean dirty flag)    *)
(*   impl = "pkg"   : FireObject of the package module __init__.py         *)
(* One proxy is modelled; Init chooses which class it is an instance of.   *)
(***************************************************************************)
EXTENDS Integers, Sequences, FiniteSets, TLC

\* ------------------------------------------------------------------ bounds
MaxValue == 2
MaxBatch == 1
MaxArgDepth == 1
MaxNodes == 3

\* ------------------------------------------------------------- value sets
Fields == {"year", "score"}
Values == 1..MaxValue
Absent == 0

Impls == {"async", "sync", "pkg"}

NoRef == "none"
ExplicitIds == {"alovelace"}
AutoIds == {"auto_1", "auto_2"}
NoId == "noid"

\* State enum
DETACHED == "DETACHED"
ATTACHED == "ATTACHED"
LOADED == "LOADED"
DELETED == "DELETED"
State == {DETACHED, ATTACHED, LOADED, DELETED}

\* Entries of a write payload and of _atomic_ops: all of one shape.
NoEntry == [kind |-> "none", arg |-> 0]
DELETE_FIELD == [kind |-> "DELETE_FIELD", arg |-> 0]
ValueEntry(v) == [kind |-> "value", arg |-> v]
ArrayUnion(v) == [kind |-> "ArrayUnion", arg |-> v]
ArrayRemove(v) == [kind |-> "ArrayRemove", arg |-> v]
Increment(v) == [kind |-> "Increment", arg |-> v]
AtomicKinds == {"ArrayUnion", "ArrayRemove", "Increment"}
AtomicArgs == {1}
\* Variant: the operation is not kept.
AtomicOp_dropped(k, v) == NoEntry

\* firestore.ArrayUnion(values) / ArrayRemove(values) / Increment(value)
AtomicOp(k, v) ==
  CASE k = "ArrayUnion" -> ArrayUnion(v)
    [] k = "ArrayRemove" -> ArrayRemove(v)
    [] OTHER -> Increment(v)

EmptyData == [f \in Fields |-> Absent]
EmptyOps == [f \in Fields |-> NoEntry]
EmptyPayload == [f \in Fields |-> NoEntry]
OpKeys(o) == {f \in Fields : o[f] # NoEntry}

\* A field map as a payload: the full cache as a write payload, or the
\* fields a snapshot carries.
FullPayload(d) ==
  [f \in Fields |-> IF d[f] # Absent THEN ValueEntry(d[f]) ELSE NoEntry]

\* --------------------------------------------- nested values and names
\* firestore_constraints.py
MAX_NESTING_DEPTH == 20
MAX_FIELD_NAME_BYTES == 1500

\* A field name of a nested map is a sequence of one-byte characters.
ValidKeys == {<<"a">>, <<"b">>}
InvalidKeys == {<<>>, <<"_", "_", "x", "_", "_">>, <<" ", "a">>}
Keys == ValidKeys \cup InvalidKeys
Whitespace == {" "}
TopField == <<"s">>

\* A value: a scalar, a plain dict or list, or a ProxiedMap / ProxiedList
\* with the _field_path and _depth it was built with.  keys[i] is the
\* key of kids[i] in a map (maps keep insertion order).
NoValue ==
  [t |-> "none", v |-> 0, keys |-> <<>>, kids |-> <<>>, path |-> <<>>,
   depth |-> 0 - 1]
Scalar(v) == [NoValue EXCEPT !.t = "scalar", !.v = v]
PlainDict(keys, kids) == [NoValue EXCEPT !.t = "dict", !.keys = keys, !.kids = kids]
PlainList(kids) == [NoValue EXCEPT !.t = "list", !.kids = kids]
ProxiedMap(keys, kids, field_path, depth) ==
  [NoValue EXCEPT !.t = "ProxiedMap", !.keys = keys, !.kids = kids,
                  !.path = field_path, !.depth = depth]
ProxiedList(kids, field_path, depth) ==
  [NoValue EXCEPT !.t = "ProxiedList", !.kids = kids, !.path = field_path,
                  !.depth = depth]

NoWrap == [value |-> NoValue, depth |-> 0]

\* A container call: the operation, its outcome ("ok", "constraint" for
\* FirestoreConstraintError, "raised" for KeyError / IndexError /
\* ValueError), the paths handed to _mark_field_dirty, the position of the
\* container it acted on (the indexes leading to it from the observed
\* container), the key it named, the value it returned and its value
\* argument.
CLast(op, result, marks, pos, key, ret, arg) ==
  [op |-> op, result |-> result, marks |-> marks, pos |-> pos,
   key |-> key, ret |-> ret, arg |-> arg]
NoKey == <<"-">>
NoCall == CLast("init", "ok", <<>>, <<>>, NoKey, NoValue, NoValue)

\* Snapshots a transport get can return: present with a field map, or absent.
Snapshots == [exists : BOOLEAN, data : [Fields -> Values \cup {Absent}]]

VARIABLES
  impl,                \* which proxy class the object is an instance of
  state,               \* _state
  doc_ref,             \* _doc_ref / _document_reference (NoRef when None)
  sync_doc_ref,        \* _sync_doc_ref is set (async proxy only)
  sync_client,         \* _sync_client is set (async proxy only)
  data,                \* _data
  dirty_fields,        \* _dirty_fields
  deleted_fields,      \* _deleted_fields
  atomic_ops,          \* _atomic_ops
  dirty,               \* _dirty (sync and pkg proxies)
  parent_collection,   \* _parent_collection / _collection_context is set
  pending_document_id, \* _CollectionContext.pending_document_id
  batch,               \* number of writes queued on the batch / transaction
  touched,             \* history: fields written or removed since the last
                       \* load or save of a proxy that keeps one dirty flag
  last,                \* history: the last call, its outcome, the transport
                       \* calls it made
  cont,                \* a container value held under the field TopField
                       \* (ProxiedMap / ProxiedList), or a value being wrapped
  wrap_in,             \* the value and the depth _wrap_value was given
  clast,               \* history: the last container call, its outcome and
                       \* the _mark_field_dirty calls it made
  cached,              \* what _data holds under TopField: the container
                       \* cont, no key at all, or another value
  inflight             \* the transport write a suspended save() awaits

vars == <<impl, state, doc_ref, sync_doc_ref, sync_client, data, dirty_fields,
          deleted_fields, atomic_ops, dirty, parent_collection,
          pending_document_id, batch, touched, last, cont, wrap_in, clast,
          cached, inflight>>


proxyVars == <<state, doc_ref, sync_doc_ref, data, dirty_fields,
               deleted_fields, atomic_ops, dirty, parent_collection,
               pending_document_id>>

\* A transport call made by a handler.
Call(kind, via, payload, accepted) ==
  [kind |-> kind, via |-> via, payload |-> payload, accepted |-> accepted,
   found |-> FALSE]

\* A save() suspended in its transport write: the call it awaits and the
\* changes that were pending when it built the payload.  NoWrite when no
\* save() is suspended.
Suspended(call, plan) == [call |-> call, plan |-> plan]
NoWrite == Suspended(Call("none", "direct", EmptyPayload, FALSE), EmptyPayload)

NoName == "-"

\* How the field a call names was tracked when the call was made; for
\* fetch(), whether any change was pending.
Was(op, name) ==
  IF op = "fetch"
    THEN IF \/ dirty_fields # {}
            \/ deleted_fields # {}
            \/ atomic_ops # [f \in Fields |-> [kind |-> "none", arg |-> 0]]
            \/ dirty
           THEN "dirty" ELSE "none"
  ELSE IF op \notin {"setattr", "delattr"} THEN "none"
  ELSE IF name \in deleted_fields THEN "deleted"
  ELSE IF atomic_ops[name] # [kind |-> "none", arg |-> 0] THEN "atomic"
  ELSE IF name \in dirty_fields THEN "dirty"
  ELSE "none"

Last(op, name, result, calls) ==
  [op |-> op, name |-> name, result |-> result, calls |-> calls,
   was |-> Was(op, name)]

\* The fields touched since the last load or save, after the call l.
NextTouched(l) ==
  LET base == IF l.calls # <<>> /\ l.calls[1].accepted /\ l.result # "notfound"
                THEN {} ELSE touched
  IN IF l.op \in {"setattr", "delattr"} /\ l.result = "ok"
       THEN base \cup {l.name} ELSE base

Frame == UNCHANGED <<impl, sync_client, cont, wrap_in, clast, cached, inflight>>
AsyncFrame ==
  UNCHANGED <<impl, sync_client, touched, cont, wrap_in, clast, cached,
              inflight>>

\* The call raised before touching the proxy or the transport.
Raise(op, name) ==
  /\ UNCHANGED proxyVars
  /\ UNCHANGED batch
  /\ last' = Last(op, name, "raised", <<>>)

\* The document id a save() mints from: read only when the proxy has no
\* reference yet.
SaveArg(doc_id) == IF state = DETACHED THEN doc_id ELSE NoName

\* ---------------------------------------------------------------- Init
ValidSnapshots == {s \in Snapshots : (~s.exists) => s.data = EmptyData}

\* doc_ref.get(): the call, whether the snapshot it returned exists and the
\* fields the snapshot carries.
Get(ok, snap) ==
  [kind |-> "get", via |-> "direct",
   payload |-> IF ok /\ snap.exists THEN FullPayload(snap.data)
               ELSE EmptyPayload,
   accepted |-> ok, found |-> ok /\ snap.exists]

Init ==
  /\ impl \in Impls
  /\ state \in {DETACHED, ATTACHED, LOADED}
  /\ sync_client \in (IF impl = "async" /\ state = ATTACHED
                      THEN BOOLEAN ELSE {FALSE})
  /\ doc_ref \in (IF state = DETACHED THEN {NoRef} ELSE ExplicitIds)
  /\ sync_doc_ref = (state = ATTACHED /\ sync_client)
  /\ parent_collection \in (IF state = DETACHED THEN BOOLEAN
                            ELSE IF impl = "pkg" THEN {FALSE} ELSE {TRUE})
  /\ pending_document_id \in (IF impl = "pkg" /\ parent_collection
                              THEN ExplicitIds \cup {NoId} ELSE {NoId})
  /\ data \in (IF state = LOADED \/ (impl = "pkg" /\ state = DETACHED)
               THEN [Fields -> Values \cup {Absent}] ELSE {EmptyData})
  /\ dirty_fields = {}
  /\ deleted_fields = {}
  /\ atomic_ops = EmptyOps
  /\ dirty = (impl = "pkg" /\ state = DETACHED)
  /\ batch = 0
  /\ touched = {}
  /\ last = Last("init", NoName, "ok", <<>>)
  /\ cont = NoValue
  /\ wrap_in = NoWrap
  /\ clast = NoCall
  /\ cached = "absent"
  /\ inflight = NoWrite

\* ------------------------------------------------ BaseFireObject (shared)
is_dirty ==
  IF state = DETACHED THEN TRUE
  ELSE \/ dirty_fields # {}
       \/ deleted_fields # {}
       \/ OpKeys(atomic_ops) # {}

\* Variant: the DELETED check is skipped.
validate_not_deleted_skipped == TRUE

validate_not_deleted == state # DELETED
validate_not_detached == state # DETACHED

\* Variant: the pending atomic operations survive the clean-up.
mark_clean_keeps_atomic_ops ==
  /\ dirty_fields' = {}
  /\ deleted_fields' = {}
  /\ atomic_ops' = atomic_ops

mark_clean ==
  /\ dirty_fields' = {}
  /\ deleted_fields' = {}
  /\ atomic_ops' = EmptyOps

\* Variant: the dirty field names survive the load.
transition_to_loaded_keeps_pending(d) ==
  /\ data' = d
  /\ state' = LOADED
  /\ dirty_fields' = dirty_fields
  /\ deleted_fields' = {}
  /\ atomic_ops' = EmptyOps

transition_to_loaded(d) ==
  /\ data' = d
  /\ state' = LOADED
  /\ dirty_fields' = {}
  /\ deleted_fields' = {}
  /\ atomic_ops' = EmptyOps

\* Variant: the proxy is not moved to DELETED.
transition_to_deleted_skipped == state' = state

transition_to_deleted == state' = DELETED

\* Variant: a field that is set stays marked for deletion.
BaseFireObject_setattr_keeps_deleted(name, value) ==
  /\ impl = "async"
  /\ AsyncFrame
  /\ IF state = DELETED
       THEN Raise("setattr", name)
       ELSE /\ data' = [data EXCEPT ![name] = value]
            /\ dirty_fields' = dirty_fields \cup {name}
            /\ UNCHANGED <<state, doc_ref, sync_doc_ref, deleted_fields,
                           atomic_ops, dirty, parent_collection,
                           pending_document_id, batch>>
            /\ last' = Last("setattr", name, "ok", <<>>)

BaseFireObject_setattr(name, value) ==
  /\ impl = "async"
  /\ AsyncFrame
  /\ IF state = DELETED
       THEN Raise("setattr", name)
       ELSE /\ data' = [data EXCEPT ![name] = value]
            /\ dirty_fields' = dirty_fields \cup {name}
            /\ deleted_fields' = deleted_fields \ {name}
            /\ UNCHANGED <<state, doc_ref, sync_doc_ref, atomic_ops, dirty,
                           parent_collection, pending_document_id, batch>>
            /\ last' = Last("setattr", name, "ok", <<>>)

\* Variant: a name that is not in the cache is marked for deletion too.
BaseFireObject_delattr_missing_ok(name) ==
  /\ impl = "async"
  /\ AsyncFrame
  /\ IF state = DELETED
       THEN Raise("delattr", name)
       ELSE /\ data' = [data EXCEPT ![name] = Absent]
            /\ deleted_fields' = deleted_fields \cup {name}
            /\ dirty_fields' = dirty_fields \ {name}
            /\ UNCHANGED <<state, doc_ref, sync_doc_ref, atomic_ops, dirty,
                           parent_collection, pending_document_id, batch>>
            /\ last' = Last("delattr", name, "ok", <<>>)

BaseFireObject_delattr(name) ==
  /\ impl = "async"
  /\ AsyncFrame
  /\ IF state = DELETED \/ data[name] = Absent
       THEN Raise("delattr", name)
       ELSE /\ data' = [data EXCEPT ![name] = Absent]
            /\ deleted_fields' = deleted_fields \cup {name}
            /\ dirty_fields' = dirty_fields \ {name}
            /\ UNCHANGED <<state, doc_ref, sync_doc_ref, atomic_ops, dirty,
                           parent_collection, pending_document_id, batch>>
            /\ last' = Last("delattr", name, "ok", <<>>)

\* Variant: the operation is registered whatever the state.
BaseFireObject_atomic_unchecked(kind, field, value) ==
  /\ impl = "async"
  /\ AsyncFrame
  /\ atomic_ops' = [atomic_ops EXCEPT ![field] = AtomicOp(kind, value)]
  /\ UNCHANGED <<state, doc_ref, sync_doc_ref, data, dirty_fields,
                 deleted_fields, dirty, parent_collection,
                 pending_document_id, batch>>
  /\ last' = Last("atomic", field, "ok", <<>>)

\* array_union / array_remove / increment
BaseFireObject_atomic(kind, field, value) ==
  /\ impl = "async"
  /\ AsyncFrame
  /\ IF ~validate_not_deleted
       THEN Raise("atomic", field)
       ELSE /\ atomic_ops' = [atomic_ops EXCEPT ![field] = AtomicOp(kind, value)]
            /\ UNCHANGED <<state, doc_ref, sync_doc_ref, data, dirty_fields,
                           deleted_fields, dirty, parent_collection,
                           pending_document_id, batch>>
            /\ last' = Last("atomic", field, "ok", <<>>)

\* Variant: the cache is handed out whatever the state.
BaseFireObject_to_dict_unchecked ==
  /\ impl = "async"
  /\ AsyncFrame
  /\ UNCHANGED proxyVars
  /\ UNCHANGED batch
  /\ last' = Last("to_dict", NoName, "ok", <<>>)

BaseFireObject_to_dict ==
  /\ impl = "async"
  /\ AsyncFrame
  /\ UNCHANGED proxyVars
  /\ UNCHANGED batch
  /\ last' = Last("to_dict", NoName,
                  IF state = ATTACHED THEN "raised" ELSE "ok", <<>>)

\* ------------------------------------- BaseFireObject hooks used by save
\* _prepare_data_for_storage: the full cache as a set() payload.
prepare_data_for_storage ==
  [f \in Fields |-> IF data[f] # Absent THEN ValueEntry(data[f]) ELSE NoEntry]

\* _build_update_dict: dirty values, then delete sentinels, then atomic ops,
\* written into one dictionary in that order.
build_update_dict ==
  [f \in Fields |->
     IF atomic_ops[f] # NoEntry THEN atomic_ops[f]
     ELSE IF f \in deleted_fields THEN DELETE_FIELD
     ELSE IF f \in dirty_fields THEN ValueEntry(data[f])
     ELSE NoEntry]

\* _should_skip_fetch(force): validates the state, then tells whether the
\* fetch is skipped.
should_skip_fetch(force) ==
  IF ~validate_not_detached \/ ~validate_not_deleted THEN "raise"
  ELSE IF state = LOADED /\ ~force THEN "skip"
  ELSE "fetch"

\* _prepare_delete: validation before the remote delete.
prepare_delete == validate_not_detached /\ validate_not_deleted

\* Variant: the caller's document id is ignored and an id is generated.
MintedRefs_ignores_doc_id(doc_id) == AutoIds \ {doc_ref}

\* collection_ref.document(doc_id) / collection_ref.document()
MintedRefs(doc_id) ==
  IF doc_id # NoId THEN {doc_id} ELSE AutoIds \ {doc_ref}

\* --------------------------------------------------------- AsyncFireObject
\* _process_snapshot
process_snapshot(op, name, snap, calls) ==
  IF ~snap.exists
    THEN /\ UNCHANGED proxyVars
         /\ last' = Last(op, name, "notfound", calls)
    ELSE /\ transition_to_loaded(snap.data)
         /\ UNCHANGED <<doc_ref, sync_doc_ref, dirty, parent_collection,
                        pending_document_id>>
         /\ last' = Last(op, name, "ok", calls)

AsyncFireObject_getattr(name) ==
  /\ impl = "async"
  /\ AsyncFrame
  /\ UNCHANGED batch
  /\ IF state = ATTACHED /\ sync_doc_ref
       THEN \E ok \in BOOLEAN, snap \in ValidSnapshots :
              LET calls == <<Get(ok, snap)>> IN
              IF ~ok
                THEN /\ UNCHANGED proxyVars
                     /\ last' = Last("getattr", name, "failed", calls)
                ELSE IF ~snap.exists
                  THEN /\ UNCHANGED proxyVars
                       /\ last' = Last("getattr", name, "notfound", calls)
                  ELSE /\ transition_to_loaded(snap.data)
                       /\ UNCHANGED <<doc_ref, sync_doc_ref, dirty,
                                      parent_collection, pending_document_id>>
                       /\ last' = Last("getattr", name,
                                       IF snap.data[name] # Absent
                                         THEN "ok" ELSE "raised", calls)
       ELSE /\ UNCHANGED proxyVars
            /\ last' = Last("getattr", name,
                            IF data[name] # Absent THEN "ok" ELSE "raised",
                            <<>>)

AsyncFireObject_fetch(force) ==
  /\ impl = "async"
  /\ AsyncFrame
  /\ UNCHANGED batch
  /\ CASE should_skip_fetch(force) = "raise" ->
            /\ UNCHANGED proxyVars
            /\ last' = Last("fetch", NoName, "raised", <<>>)
       [] should_skip_fetch(force) = "skip" ->
            /\ UNCHANGED proxyVars
            /\ last' = Last("fetch", NoName, "noop", <<>>)
       [] OTHER ->
            \E ok \in BOOLEAN, snap \in ValidSnapshots :
              LET calls == <<Get(ok, snap)>> IN
              IF ~ok
                THEN /\ UNCHANGED proxyVars
                     /\ last' = Last("fetch", NoName, "failed", calls)
                ELSE process_snapshot("fetch", NoName, snap, calls)

\* _write_set / _write_update / _write_delete: queue the write on the
\* transaction or batch, or await the transport.  Direct writes can fail.
WriteVias == {"direct", "batch", "transaction"}

\* save() of a DETACHED proxy
AsyncFireObject_save_detached(doc_id, via) ==
  IF via # "direct" \/ ~parent_collection
    THEN Raise("save", NoName)
    ELSE \E ref \in MintedRefs(doc_id), ok \in BOOLEAN :
           LET calls == <<Call("set", "direct", prepare_data_for_storage, ok)>>
           IN
           /\ doc_ref' = ref
           /\ sync_doc_ref' = sync_client
           /\ UNCHANGED <<data, dirty, parent_collection,
                          pending_document_id, batch>>
           /\ IF ok
                THEN /\ state' = LOADED
                     /\ mark_clean
                     /\ last' = Last("save", doc_id, "ok", calls)
                ELSE /\ UNCHANGED <<state, dirty_fields, deleted_fields,
                                    atomic_ops>>
                     /\ last' = Last("save", doc_id, "failed", calls)

\* Variant: the pending changes are cleared before the write is awaited.
AsyncFireObject_save_write_clean_first(kind, payload, via, newState) ==
  IF via = "direct"
    THEN \E ok \in BOOLEAN :
           LET calls == <<Call(kind, via, payload, ok)>> IN
           /\ UNCHANGED <<doc_ref, sync_doc_ref, data, dirty,
                          parent_collection, pending_document_id, batch>>
           /\ mark_clean
           /\ state' = IF ok THEN newState ELSE state
           /\ last' = Last("save", NoName, IF ok THEN "ok" ELSE "failed", calls)
    ELSE /\ batch < MaxBatch
         /\ batch' = batch + 1
         /\ UNCHANGED <<doc_ref, sync_doc_ref, data, dirty,
                        parent_collection, pending_document_id>>
         /\ state' = newState
         /\ mark_clean
         /\ last' = Last("save", NoName, "ok",
                         <<Call(kind, via, payload, FALSE)>>)

\* save() of a LOADED (kind = "update") or ATTACHED (kind = "set") proxy
AsyncFireObject_save_write(kind, payload, via, newState) ==
  IF via = "direct"
    THEN \E ok \in BOOLEAN :
           LET calls == <<Call(kind, via, payload, ok)>> IN
           /\ UNCHANGED <<doc_ref, sync_doc_ref, data, dirty,
                          parent_collection, pending_document_id, batch>>
           /\ IF ok
                THEN /\ state' = newState
                     /\ mark_clean
                     /\ last' = Last("save", NoName, "ok", calls)
                ELSE /\ UNCHANGED <<state, dirty_fields, deleted_fields,
                                    atomic_ops>>
                     /\ last' = Last("save", NoName, "failed", calls)
    ELSE /\ batch < MaxBatch
         /\ batch' = batch + 1
         /\ UNCHANGED <<doc_ref, sync_doc_ref, data, dirty,
                        parent_collection, pending_document_id>>
         /\ state' = newState
         /\ mark_clean
         /\ last' = Last("save", NoName, "ok",
                         <<Call(kind, via, payload, FALSE)>>)

AsyncFireObject_save(doc_id, via) ==
  /\ impl = "async"
  /\ AsyncFrame
  /\ CASE ~validate_not_deleted -> Raise("save", NoName)
       [] state = DETACHED -> AsyncFireObject_save_detached(doc_id, via)
       [] state = LOADED ->
            IF ~is_dirty
              THEN /\ UNCHANGED proxyVars
                   /\ UNCHANGED batch
                   /\ last' = Last("save", NoName, "noop", <<>>)
              ELSE AsyncFireObject_save_write("update", build_update_dict,
                                              via, LOADED)
       [] OTHER ->
            AsyncFireObject_save_write("set", prepare_data_for_storage,
                                       via, LOADED)

AsyncFireObject_delete(via) ==
  /\ impl = "async"
  /\ AsyncFrame
  /\ IF ~prepare_delete
       THEN Raise("delete", NoName)
       ELSE IF via = "direct"
         THEN \E ok \in BOOLEAN :
                LET calls == <<Call("delete", via, EmptyPayload, ok)>> IN
                /\ UNCHANGED <<doc_ref, sync_doc_ref, data, dirty_fields,
                               deleted_fields, atomic_ops, dirty,
                               parent_collection, pending_document_id, batch>>
                /\ IF ok
                     THEN /\ transition_to_deleted
                          /\ last' = Last("delete", NoName, "ok", calls)
                     ELSE /\ UNCHANGED state
                          /\ last' = Last("delete", NoName, "failed", calls)
         ELSE /\ batch < MaxBatch
              /\ batch' = batch + 1
              /\ UNCHANGED <<doc_ref, sync_doc_ref, data, dirty_fields,
                             deleted_fields, atomic_ops, dirty,
                             parent_collection, pending_document_id>>
              /\ transition_to_deleted
              /\ last' = Last("delete", NoName, "ok",
                              <<Call("delete", via, EmptyPayload, FALSE)>>)

\* batch.commit() / the end of the transaction: the queued writes reach the
\* remote store together, or none does.
BatchCommit ==
  /\ batch > 0
  /\ AsyncFrame
  /\ UNCHANGED proxyVars
  /\ batch' = 0
  /\ \E ok \in BOOLEAN :
       last' = Last("commit", NoName, IF ok THEN "ok" ELSE "failed", <<>>)

\* ------------------------------------------ FireObject of fire_object.py
FireObject_is_dirty == IF state = DETACHED THEN TRUE ELSE dirty

FireObject_getattr(name) ==
  /\ impl = "sync"
  /\ Frame
  /\ UNCHANGED proxyVars
  /\ UNCHANGED batch
  /\ last' = Last("getattr", name,
                  IF state # ATTACHED /\ data[name] # Absent
                    THEN "ok" ELSE "raised", <<>>)
  /\ touched' = NextTouched(last')

FireObject_setattr(name, value) ==
  /\ impl = "sync"
  /\ Frame
  /\ IF state = DELETED
       THEN Raise("setattr", name)
       ELSE /\ data' = [data EXCEPT ![name] = value]
            /\ dirty' = TRUE
            /\ UNCHANGED <<state, doc_ref, sync_doc_ref, dirty_fields,
                           deleted_fields, atomic_ops, parent_collection,
                           pending_document_id, batch>>
            /\ last' = Last("setattr", name, "ok", <<>>)
  /\ touched' = NextTouched(last')

FireObject_delattr(name) ==
  /\ impl = "sync"
  /\ Frame
  /\ IF state = DELETED \/ data[name] = Absent
       THEN Raise("delattr", name)
       ELSE /\ data' = [data EXCEPT ![name] = Absent]
            /\ dirty' = TRUE
            /\ UNCHANGED <<state, doc_ref, sync_doc_ref, dirty_fields,
                           deleted_fields, atomic_ops, parent_collection,
                           pending_document_id, batch>>
            /\ last' = Last("delattr", name, "ok", <<>>)
  /\ touched' = NextTouched(last')

\* Variant: a proxy without a reference is not turned away.
FireObject_fetch_unchecked(force) ==
  /\ impl = "sync"
  /\ Frame
  /\ UNCHANGED batch
  /\ CASE state = DELETED -> Raise("fetch", NoName)
       [] state = LOADED /\ ~force ->
            /\ UNCHANGED proxyVars
            /\ last' = Last("fetch", NoName, "noop", <<>>)
       [] OTHER ->
            \E ok \in BOOLEAN, snap \in ValidSnapshots :
              LET calls == <<Get(ok, snap)>> IN
              IF ~ok \/ ~snap.exists
                THEN /\ UNCHANGED proxyVars
                     /\ last' = Last("fetch", NoName,
                                     IF ok THEN "notfound" ELSE "failed", calls)
                ELSE /\ data' = snap.data
                     /\ state' = LOADED
                     /\ dirty' = FALSE
                     /\ UNCHANGED <<doc_ref, sync_doc_ref, dirty_fields,
                                    deleted_fields, atomic_ops,
                                    parent_collection, pending_document_id>>
                     /\ last' = Last("fetch", NoName, "ok", calls)
  /\ touched' = NextTouched(last')

FireObject_fetch(force) ==
  /\ impl = "sync"
  /\ Frame
  /\ UNCHANGED batch
  /\ CASE state = DETACHED \/ state = DELETED -> Raise("fetch", NoName)
       [] state = LOADED /\ ~force ->
            /\ UNCHANGED proxyVars
            /\ last' = Last("fetch", NoName, "noop", <<>>)
       [] OTHER ->
            \E ok \in BOOLEAN, snap \in ValidSnapshots :
              LET calls == <<Get(ok, snap)>> IN
              IF ~ok \/ ~snap.exists
                THEN /\ UNCHANGED proxyVars
                     /\ last' = Last("fetch", NoName,
                                     IF ok THEN "notfound" ELSE "failed", calls)
                ELSE /\ data' = snap.data
                     /\ state' = LOADED
                     /\ dirty' = FALSE
                     /\ UNCHANGED <<doc_ref, sync_doc_ref, dirty_fields,
                                    deleted_fields, atomic_ops,
                                    parent_collection, pending_document_id>>
                     /\ last' = Last("fetch", NoName, "ok", calls)
  /\ touched' = NextTouched(last')

FireObject_to_dict ==
  /\ impl = "sync"
  /\ Frame
  /\ UNCHANGED proxyVars
  /\ UNCHANGED batch
  /\ last' = Last("to_dict", NoName,
                  IF state = ATTACHED THEN "raised" ELSE "ok", <<>>)
  /\ touched' = NextTouched(last')

\* doc_ref.set(self._data): the full cache is the payload.
FireObject_payload ==
  [f \in Fields |-> IF data[f] # Absent THEN ValueEntry(data[f]) ELSE NoEntry]

\* Variant: the missing collection is not noticed before the write.
FireObject_save_no_context_check(doc_id) ==
  /\ impl = "sync"
  /\ Frame
  /\ UNCHANGED batch
  /\ CASE state = DELETED -> Raise("save", NoName)
       [] state = LOADED /\ ~dirty ->
            /\ UNCHANGED proxyVars
            /\ last' = Last("save", NoName, "noop", <<>>)
       [] OTHER ->
            \E ref \in MintedRefs(doc_id), ok \in BOOLEAN :
              LET calls == <<Call("set", "direct", FireObject_payload, ok)>> IN
              IF ~ok
                THEN /\ UNCHANGED proxyVars
                     /\ last' = Last("save", SaveArg(doc_id), "failed", calls)
                ELSE /\ doc_ref' = IF state = DETACHED THEN ref ELSE doc_ref
                     /\ state' = LOADED
                     /\ dirty' = FALSE
                     /\ UNCHANGED <<sync_doc_ref, data, dirty_fields,
                                    deleted_fields, atomic_ops,
                                    parent_collection, pending_document_id>>
                     /\ last' = Last("save", SaveArg(doc_id), "ok", calls)
  /\ touched' = NextTouched(last')

FireObject_save(doc_id) ==
  /\ impl = "sync"
  /\ Frame
  /\ UNCHANGED batch
  /\ CASE state = DELETED -> Raise("save", NoName)
       [] state = DETACHED /\ ~parent_collection -> Raise("save", NoName)
       [] state = LOADED /\ ~dirty ->
            /\ UNCHANGED proxyVars
            /\ last' = Last("save", NoName, "noop", <<>>)
       [] OTHER ->
            \E ref \in MintedRefs(doc_id), ok \in BOOLEAN :
              LET calls == <<Call("set", "direct", FireObject_payload, ok)>> IN
              IF ~ok
                THEN /\ UNCHANGED proxyVars
                     /\ last' = Last("save", SaveArg(doc_id), "failed", calls)
                ELSE /\ doc_ref' = IF state = DETACHED THEN ref ELSE doc_ref
                     /\ state' = LOADED
                     /\ dirty' = FALSE
                     /\ UNCHANGED <<sync_doc_ref, data, dirty_fields,
                                    deleted_fields, atomic_ops,
                                    parent_collection, pending_document_id>>
                     /\ last' = Last("save", SaveArg(doc_id), "ok", calls)
  /\ touched' = NextTouched(last')

\* Variant: a proxy that was never saved is marked DELETED locally.
FireObject_delete_detached_local ==
  /\ impl = "sync"
  /\ Frame
  /\ UNCHANGED batch
  /\ IF state = DELETED
       THEN Raise("delete", NoName)
       ELSE IF state = DETACHED
         THEN /\ UNCHANGED <<doc_ref, sync_doc_ref, data, dirty_fields,
                             deleted_fields, atomic_ops, dirty,
                             parent_collection, pending_document_id>>
              /\ state' = DELETED
              /\ last' = Last("delete", NoName, "ok", <<>>)
       ELSE \E ok \in BOOLEAN :
              LET calls == <<Call("delete", "direct", EmptyPayload, ok)>> IN
              /\ UNCHANGED <<doc_ref, sync_doc_ref, data, dirty_fields,
                             deleted_fields, atomic_ops, dirty,
                             parent_collection, pending_document_id>>
              /\ state' = IF ok THEN DELETED ELSE state
              /\ last' = Last("delete", NoName,
                              IF ok THEN "ok" ELSE "failed", calls)
  /\ touched' = NextTouched(last')

FireObject_delete ==
  /\ impl = "sync"
  /\ Frame
  /\ UNCHANGED batch
  /\ IF state = DETACHED \/ state = DELETED
       THEN Raise("delete", NoName)
       ELSE \E ok \in BOOLEAN :
              LET calls == <<Call("delete", "direct", EmptyPayload, ok)>> IN
              /\ UNCHANGED <<doc_ref, sync_doc_ref, data, dirty_fields,
                             deleted_fields, atomic_ops, dirty,
                             parent_collection, pending_document_id>>
              /\ state' = IF ok THEN DELETED ELSE state
              /\ last' = Last("delete", NoName,
                              IF ok THEN "ok" ELSE "failed", calls)
  /\ touched' = NextTouched(last')

\* -------------------------------------- FireObject of package __init__.py
ensure_not_deleted == state # DELETED

\* fetch(): an absent snapshot is loaded as an empty document.
Pkg_fetched(snap) == IF snap.exists THEN snap.data ELSE EmptyData

Pkg_FireObject_getattr(name) ==
  /\ impl = "pkg"
  /\ Frame
  /\ UNCHANGED batch
  /\ IF data[name] = Absent /\ state = ATTACHED
       THEN \E ok \in BOOLEAN, snap \in ValidSnapshots :
              LET calls == <<Get(ok, snap)>> IN
              IF ~ok
                THEN /\ UNCHANGED proxyVars
                     /\ last' = Last("getattr", name, "failed", calls)
                ELSE /\ data' = Pkg_fetched(snap)
                     /\ state' = LOADED
                     /\ dirty' = FALSE
                     /\ UNCHANGED <<doc_ref, sync_doc_ref, dirty_fields,
                                    deleted_fields, atomic_ops,
                                    parent_collection, pending_document_id>>
                     /\ last' = Last("getattr", name,
                                     IF Pkg_fetched(snap)[name] # Absent
                                       THEN "ok" ELSE "raised", calls)
       ELSE /\ UNCHANGED proxyVars
            /\ last' = Last("getattr", name,
                            IF data[name] # Absent THEN "ok" ELSE "raised",
                            <<>>)
  /\ touched' = NextTouched(last')

Pkg_FireObject_setattr(name, value) ==
  /\ impl = "pkg"
  /\ Frame
  /\ UNCHANGED batch
  /\ IF ~ensure_not_deleted
       THEN Raise("setattr", name)
       ELSE IF state = ATTACHED /\ data[name] = Absent
         THEN \E ok \in BOOLEAN, snap \in ValidSnapshots :
                LET calls == <<Get(ok, snap)>> IN
                IF ~ok
                  THEN /\ UNCHANGED proxyVars
                       /\ last' = Last("setattr", name, "failed", calls)
                  ELSE /\ data' = [Pkg_fetched(snap) EXCEPT ![name] = value]
                       /\ state' = LOADED
                       /\ dirty' = TRUE
                       /\ UNCHANGED <<doc_ref, sync_doc_ref, dirty_fields,
                                      deleted_fields, atomic_ops,
                                      parent_collection, pending_document_id>>
                       /\ last' = Last("setattr", name, "ok", calls)
         ELSE /\ data' = [data EXCEPT ![name] = value]
              /\ dirty' = TRUE
              /\ state' = IF state = ATTACHED THEN LOADED ELSE state
              /\ UNCHANGED <<doc_ref, sync_doc_ref, dirty_fields,
                             deleted_fields, atomic_ops,
                             parent_collection, pending_document_id>>
              /\ last' = Last("setattr", name, "ok", <<>>)
  /\ touched' = NextTouched(last')

Pkg_FireObject_delattr(name) ==
  /\ impl = "pkg"
  /\ Frame
  /\ IF ~ensure_not_deleted \/ data[name] = Absent
       THEN Raise("delattr", name)
       ELSE /\ data' = [data EXCEPT ![name] = Absent]
            /\ dirty' = TRUE
            /\ UNCHANGED <<state, doc_ref, sync_doc_ref, dirty_fields,
                           deleted_fields, atomic_ops, parent_collection,
                           pending_document_id, batch>>
            /\ last' = Last("delattr", name, "ok", <<>>)
  /\ touched' = NextTouched(last')

Pkg_FireObject_fetch ==
  /\ impl = "pkg"
  /\ Frame
  /\ UNCHANGED batch
  /\ IF ~ensure_not_deleted \/ doc_ref = NoRef
       THEN Raise("fetch", NoName)
       ELSE \E ok \in BOOLEAN, snap \in ValidSnapshots :
              LET calls == <<Get(ok, snap)>> IN
              IF ~ok
                THEN /\ UNCHANGED proxyVars
                     /\ last' = Last("fetch", NoName, "failed", calls)
                ELSE /\ data' = Pkg_fetched(snap)
                     /\ state' = LOADED
                     /\ dirty' = FALSE
                     /\ UNCHANGED <<doc_ref, sync_doc_ref, dirty_fields,
                                    deleted_fields, atomic_ops,
                                    parent_collection, pending_document_id>>
                     /\ last' = Last("fetch", NoName, "ok", calls)
  /\ touched' = NextTouched(last')

Pkg_FireObject_save ==
  /\ impl = "pkg"
  /\ Frame
  /\ UNCHANGED batch
  /\ CASE ~ensure_not_deleted -> Raise("save", NoName)
       [] doc_ref = NoRef /\ ~parent_collection -> Raise("save", NoName)
       [] OTHER ->
            \E ref \in MintedRefs(pending_document_id), ok \in BOOLEAN :
              LET calls == <<Call("set", "direct", FireObject_payload, ok)>> IN
              /\ doc_ref' = IF doc_ref = NoRef THEN ref ELSE doc_ref
              /\ parent_collection' =
                   IF doc_ref = NoRef THEN FALSE ELSE parent_collection
              /\ pending_document_id' =
                   IF doc_ref = NoRef THEN NoId ELSE pending_document_id
              /\ UNCHANGED <<sync_doc_ref, data, dirty_fields, deleted_fields,
                             atomic_ops>>
              /\ IF ok
                   THEN /\ dirty' = FALSE
                        /\ state' = LOADED
                        /\ last' = Last("save", SaveArg(pending_document_id),
                                        "ok", calls)
                   ELSE /\ dirty' = dirty
                        /\ state' = IF doc_ref = NoRef THEN ATTACHED ELSE state
                        /\ last' = Last("save", SaveArg(pending_document_id),
                                        "failed", calls)
  /\ touched' = NextTouched(last')

Pkg_FireObject_delete ==
  /\ impl = "pkg"
  /\ Frame
  /\ UNCHANGED batch
  /\ IF ~ensure_not_deleted \/ doc_ref = NoRef
       THEN Raise("delete", NoName)
       ELSE \E ok \in BOOLEAN :
              LET calls == <<Call("delete", "direct", EmptyPayload, ok)>> IN
              /\ UNCHANGED <<doc_ref, sync_doc_ref, data, dirty_fields,
                             deleted_fields, atomic_ops,
                             parent_collection, pending_document_id>>
              /\ dirty' = IF ok THEN FALSE ELSE dirty
              /\ state' = IF ok THEN DELETED ELSE state
              /\ last' = Last("delete", NoName,
                              IF ok THEN "ok" ELSE "failed", calls)
  /\ touched' = NextTouched(last')

\* ------------------------------------------------------------------- Next
Next ==
  \/ \E name \in Fields, value \in Values : BaseFireObject_setattr(name, value)
  \/ \E name \in Fields : BaseFireObject_delattr(name)
  \/ \E kind \in AtomicKinds, field \in Fields, value \in AtomicArgs :
       BaseFireObject_atomic(kind, field, value)
  \/ \E name \in Fields : AsyncFireObject_getattr(name)
  \/ \E force \in BOOLEAN : AsyncFireObject_fetch(force)
  \/ \E doc_id \in ExplicitIds \cup {NoId}, via \in WriteVias :
       AsyncFireObject_save(doc_id, via)
  \/ \E via \in {"direct", "batch"} : AsyncFireObject_delete(via)
  \/ BatchCommit
  \/ BaseFireObject_to_dict
  \/ \E name \in Fields : FireObject_getattr(name)
  \/ \E name \in Fields, value \in Values : FireObject_setattr(name, value)
  \/ \E name \in Fields : FireObject_delattr(name)
  \/ \E force \in BOOLEAN : FireObject_fetch(force)
  \/ \E doc_id \in ExplicitIds \cup {NoId} : FireObject_save(doc_id)
  \/ FireObject_delete
  \/ FireObject_to_dict
  \/ \E name \in Fields : Pkg_FireObject_getattr(name)
  \/ \E name \in Fields, value \in Values :
       Pkg_FireObject_setattr(name, value)
  \/ \E name \in Fields : Pkg_FireObject_delattr(name)
  \/ Pkg_FireObject_fetch
  \/ Pkg_FireObject_save
  \/ Pkg_FireObject_delete

Spec == Init /\ [][Next]_vars

TypeOK ==
  /\ impl \in Impls
  /\ state \in State
  /\ doc_ref \in {NoRef} \cup ExplicitIds \cup AutoIds
  /\ dirty_fields \subseteq Fields
  /\ deleted_fields \subseteq Fields
  /\ batch \in 0..MaxBatch
  /\ touched \subseteq Fields

\* ------------------------------------------------------- derived notions
\* is_dirty() of whichever proxy class the object is; the package
\* FireObject has no is_dirty() and exposes the _dirty flag it maintains.
Proxy_is_dirty ==
  IF impl = "async" THEN is_dirty
  ELSE IF impl = "sync" THEN FireObject_is_dirty
  ELSE dirty

\* The payload save() would hand to the transport in the current state.
SavePlan ==
  IF impl = "async"
    THEN IF state = LOADED THEN build_update_dict ELSE prepare_data_for_storage
    ELSE FireObject_payload

PendingNames == dirty_fields \cup deleted_fields \cup OpKeys(atomic_ops)

MutationOps == {"setattr", "delattr", "atomic"}

C2_DeletedIsTerminal == [][state = DELETED => state' = DELETED]_vars

\* An operation was attempted on a DELETED proxy.
C2_Witness ==
  /\ state = DELETED
  /\ last.op \in {"save", "fetch", "setattr", "atomic", "getattr"}

\* ------------------------------------------------------------------ C3
\* C3: on a DELETED proxy every field set, field delete, atomic-op
\* registration, save, fetch and delete raises at the call, makes no
\* transport call, queues nothing, and leaves the cache and
\* dirtyFields / deletedFields / pendingAtomicOps unchanged.
C3_DeletedRejects ==
  [][(state = DELETED /\ last'.op \in MutationOps \cup {"save", "fetch", "delete"}) =>
        /\ last'.result = "raised"
        /\ last'.calls = <<>>
        /\ UNCHANGED <<data, dirty_fields, deleted_fields, atomic_ops, dirty,
                       batch>>]_vars

\* An atomic-op registration was rejected by a DELETED proxy that still
\* holds pending changes.
C3_Witness ==
  /\ state = DELETED
  /\ last.op = "atomic"
  /\ last.result = "raised"
  /\ dirty_fields # {}

\* ------------------------------------------------------------------ C4
\* C4: is_dirty() is true right after a successful setField, deleteField
\* or atomic-op registration, and false right after a successful save().
C4_DirtyAfterMutationCleanAfterSave ==
  /\ (last.op \in MutationOps /\ last.result = "ok") => Proxy_is_dirty
  /\ (last.op = "save" /\ last.result \in {"ok", "noop"}) => ~Proxy_is_dirty

\* A save() of a LOADED proxy with pending changes has just succeeded.
C4_Witness ==
  /\ last.op = "save"
  /\ last.result = "ok"
  /\ last.calls # <<>>
  /\ last.calls[1].kind = "update"
  /\ OpKeys(last.calls[1].payload) # {}

\* ------------------------------------------------------------------ C5
\* C5: save() is idempotent: a save() that follows a successful save()
\* with no mutation in between makes no transport write, and save() on a
\* LOADED proxy that is not dirty makes no transport call.
C5_SaveIdempotent ==
  [][(last'.op = "save" /\ last'.result # "raised") =>
        /\ (state = LOADED /\ ~Proxy_is_dirty) => last'.calls = <<>>
        /\ (last.op = "save" /\ last.result = "ok") => last'.calls = <<>>]_vars

\* ------------------------------------------------------------------ C6
\* The fields changed since the last load or save.
Touched == IF impl = "async" THEN PendingNames ELSE touched

PayloadPairs(p) == {<<f, p[f]>> : f \in OpKeys(p)}

ExpectedPairs ==
  {<<f, ValueEntry(data[f])>> : f \in dirty_fields}
    \cup {<<f, DELETE_FIELD>> : f \in deleted_fields}
    \cup {<<f, atomic_ops[f]>> : f \in OpKeys(atomic_ops)}

\* C6: the one payload save() hands to the transport for a LOADED dirty
\* proxy holds exactly the current value of every dirty field, a delete
\* sentinel for every deleted field and the sentinel of every pending
\* atomic op; untouched fields are not in it; dirtyFields is empty after
\* the save succeeds.
C6_PartialUpdatePayload ==
  [][(state = LOADED /\ Proxy_is_dirty /\ last'.op = "save"
        /\ last'.calls # <<>>) =>
        /\ Len(last'.calls) = 1
        /\ OpKeys(last'.calls[1].payload) \subseteq Touched
        /\ impl = "async" =>
             PayloadPairs(last'.calls[1].payload) = ExpectedPairs
        /\ last'.result = "ok" => dirty_fields' = {}]_vars

\* ------------------------------------------------------------------ C7
\* C7: when the transport call made by save() fails or is cancelled,
\* dirtyFields, deletedFields and pendingAtomicOps (and the dirty flag)
\* are as before the call, and a retry of save() builds the same payload.
C7_FailedSaveKeepsPending ==
  [][(last'.op = "save" /\ last'.result = "failed") =>
        /\ UNCHANGED <<dirty_fields, deleted_fields, atomic_ops, dirty>>
        /\ Proxy_is_dirty' = Proxy_is_dirty
        /\ SavePlan' = SavePlan]_vars

\* The partial update of a LOADED proxy holding a dirty field and a
\* pending atomic op has just failed.
C7_Witness ==
  /\ impl = "async"
  /\ state = LOADED
  /\ last.op = "save"
  /\ last.result = "failed"
  /\ dirty_fields # {}
  /\ OpKeys(atomic_ops) # {}

\* ------------------------------------------------------------------ C8
\* C8: when the transport call made by save(), fetch() or delete() fails,
\* the lifecycle state, the document reference and the cache are
\* unchanged.
C8_FailedCallKeepsProxy ==
  [][(last'.op \in {"save", "fetch", "delete"} /\ last'.result = "failed") =>
        UNCHANGED <<state, doc_ref, data>>]_vars

\* ------------------------------------------------------------------ C9
\* C9: save() clears the pending-change state only when the remote store
\* has accepted the write that carries it.
C9_CleanOnlyAfterAcceptedWrite ==
  [][(last'.op = "save" /\ PendingNames # {} /\ PendingNames' = {}) =>
        /\ last'.calls # <<>>
        /\ last'.calls[1].accepted]_vars

\* ------------------------------------------------------------------ C10
\* C10: after registerAtomicOp(n, op) followed by setField(n, v),
\* pendingAtomicOps no longer holds n and the save plan carries the plain
\* value write n = v.
C10_DirectWriteReplacesAtomicOp ==
  [][(impl = "async" /\ last'.op = "setattr" /\ last'.result = "ok") =>
        /\ atomic_ops'[last'.name] = NoEntry
        /\ state' = LOADED =>
             SavePlan'[last'.name] = ValueEntry(data'[last'.name])]_vars

\* ------------------------------------------------------------------ C11
\* C11: whenever save() is called on a LOADED proxy that tracks fields, no
\* field name is in more than one of dirtyFields, deletedFields and
\* pendingAtomicOps, the three categories the update payload is built from.
C11_PayloadCategoriesDisjoint ==
  [][(impl = "async" /\ state = LOADED /\ last'.op = "save") =>
        /\ dirty_fields \cap deleted_fields = {}
        /\ dirty_fields \cap OpKeys(atomic_ops) = {}
        /\ deleted_fields \cap OpKeys(atomic_ops) = {}]_vars

\* ------------------------------------------------------------------ C12
\* C12: the one write of a successful save() carries every pending atomic
\* op, every pending field write and every pending field removal (a removal
\* travels as a delete sentinel in an update and as the field's absence in
\* a full overwrite), whatever the lifecycle state; and a save() that
\* follows a successful save() with nothing registered in between sends
\* nothing again.
C12_NoMutationLostOrResent ==
  [][(last'.op = "save" /\ last'.result \notin {"raised", "failed"}) =>
        /\ last'.calls # <<>> =>
             LET c == last'.calls[1] IN
             /\ \A f \in OpKeys(atomic_ops) : c.payload[f] = atomic_ops[f]
             /\ \A f \in dirty_fields : c.payload[f] = ValueEntry(data[f])
             /\ \A f \in deleted_fields :
                  c.payload[f] = IF c.kind = "update" THEN DELETE_FIELD
                                 ELSE NoEntry
             /\ \A f \in touched : c.payload[f] = FullPayload(data)[f]
        /\ (last.op = "save" /\ last.result = "ok") => last'.calls = <<>>]_vars

\* ------------------------------------------------------------------ C13
\* C13: in every reachable state a DETACHED proxy has no document
\* reference and reports itself dirty.
C13_DetachedHasNoIdentity ==
  state = DETACHED => (doc_ref = NoRef /\ Proxy_is_dirty)

\* ------------------------------------------------------------------ C14
\* C14: a successful save() of a DETACHED proxy that has a collection
\* context mints a reference (the caller's id when one was given, a
\* generated one otherwise), makes exactly one set() whose payload is the
\* whole cache, leaves the cache as it was and leaves the proxy LOADED with
\* nothing pending.
C14_DetachedSaveCreates ==
  [][(state = DETACHED /\ parent_collection /\ last'.op = "save"
        /\ last'.result = "ok") =>
        /\ doc_ref' # NoRef
        /\ last'.name \in ExplicitIds => doc_ref' = last'.name
        /\ last'.name = NoId => doc_ref' \in AutoIds
        /\ Len(last'.calls) = 1
        /\ last'.calls[1].kind = "set"
        /\ last'.calls[1].payload = FullPayload(data)
        /\ data' = data
        /\ state' = LOADED
        /\ PendingNames' = {}
        /\ ~Proxy_is_dirty']_vars

\* A DETACHED proxy holding fields was saved under the caller's id.
C14_Witness ==
  /\ state = LOADED
  /\ last.op = "save"
  /\ last.result = "ok"
  /\ last.name \in ExplicitIds
  /\ doc_ref = last.name
  /\ last.calls # <<>>
  /\ OpKeys(last.calls[1].payload) = Fields

\* ------------------------------------------------------------------ C15
\* C15: the lifecycle state changes only by save (DETACHED or ATTACHED to
\* LOADED), by fetch or a field read (ATTACHED to LOADED) and by delete
\* (to DELETED); no step enters ATTACHED, and setField, deleteField and
\* atomic-op registration never change the state.
C15_LifecycleTransitions ==
  [][state' # state =>
        \/ /\ last'.op = "save"
           /\ last'.result = "ok"
           /\ state \in {DETACHED, ATTACHED}
           /\ state' = LOADED
        \/ /\ last'.op \in {"fetch", "getattr"}
           /\ state = ATTACHED
           /\ state' = LOADED
        \/ /\ last'.op = "delete"
           /\ state' = DELETED]_vars

\* ------------------------------------------------------------------ C16
\* C16 as stated: delete() on a DETACHED proxy makes no transport call and
\* leaves the proxy DELETED.
C16_DetachedDeleteIsLocal ==
  [][(state = DETACHED /\ last'.op = "delete") =>
        /\ last'.calls = <<>>
        /\ state' = DELETED]_vars

\* C16 as amended: delete() on a DETACHED proxy raises at the call, makes
\* no transport call, queues nothing and leaves the proxy DETACHED with
\* its fields and pending changes as they were.
C16_DetachedDeleteRaises ==
  [][(state = DETACHED /\ last'.op = "delete") =>
        /\ last'.result = "raised"
        /\ last'.calls = <<>>
        /\ state' = DETACHED
        /\ UNCHANGED proxyVars
        /\ UNCHANGED batch]_vars

\* delete() was turned away by a DETACHED proxy that holds fields.
C16_Witness ==
  /\ state = DETACHED
  /\ last.op = "delete"
  /\ last.result = "raised"
  /\ data # EmptyData

\* ------------------------------------------------------------------ C17
\* C17: fetch() on a DETACHED proxy raises at the call, makes no transport
\* call and leaves the proxy DETACHED with its fields and pending changes
\* as they were.
C17_DetachedFetchRaises ==
  [][(state = DETACHED /\ last'.op = "fetch") =>
        /\ last'.result = "raised"
        /\ last'.calls = <<>>
        /\ state' = DETACHED
        /\ UNCHANGED <<data, dirty_fields, deleted_fields, atomic_ops, dirty,
                       doc_ref>>]_vars

\* fetch() was turned away by a DETACHED proxy that holds fields.
C17_Witness ==
  /\ state = DETACHED
  /\ last.op = "fetch"
  /\ last.result = "raised"
  /\ last.calls = <<>>
  /\ data # EmptyData

\* ------------------------------------------------------------------ C18
\* C18: save() on a DETACHED proxy that has no collection context raises
\* at the call, makes no transport call, mints no reference and leaves the
\* proxy DETACHED with its fields as they were.
C18_SaveWithoutContextRaises ==
  [][(state = DETACHED /\ ~parent_collection /\ last'.op = "save") =>
        /\ last'.result = "raised"
        /\ last'.calls = <<>>
        /\ doc_ref' = NoRef
        /\ state' = DETACHED
        /\ UNCHANGED <<data, dirty_fields, deleted_fields, atomic_ops, dirty,
                       batch>>]_vars

\* save() was turned away by a DETACHED proxy that holds fields and has no
\* collection context.
C18_Witness ==
  /\ state = DETACHED
  /\ ~parent_collection
  /\ last.op = "save"
  /\ last.result = "raised"
  /\ data # EmptyData

\* ------------------------------------------------------------------ C19
\* C19: when an explicit fetch() of an ATTACHED proxy gets a snapshot that
\* does not exist, it raises NotFound, the proxy stays ATTACHED and its
\* cache and pending changes are as they were.
C19_FetchAbsentRaisesNotFound ==
  [][(state = ATTACHED /\ last'.op = "fetch" /\ last'.calls # <<>>
        /\ last'.calls[1].accepted /\ ~last'.calls[1].found) =>
        /\ last'.result = "notfound"
        /\ state' = ATTACHED
        /\ UNCHANGED <<data, dirty_fields, deleted_fields, atomic_ops,
                       dirty>>]_vars

\* ------------------------------------------------------------------ C20
\* C20: a field read on an ATTACHED proxy makes exactly one transport get;
\* when the get returns the document the proxy becomes LOADED and the read
\* returns the field or raises if the field is absent from the loaded
\* data; a field read on a LOADED proxy makes no transport call.  (The
\* asynchronous proxy reads lazily only through its synchronous reference;
\* one built without it is left out.)
C20_LazyFetchOnFirstRead ==
  [][last'.op = "getattr" =>
        /\ (state = ATTACHED /\ (impl = "async" => sync_doc_ref)) =>
             /\ Len(last'.calls) = 1
             /\ last'.calls[1].kind = "get"
             /\ last'.calls[1].found =>
                  /\ state' = LOADED
                  /\ last'.result =
                       IF data'[last'.name] # Absent THEN "ok" ELSE "raised"
        /\ state = LOADED => last'.calls = <<>>]_vars

\* ------------------------------------------------------------------ C21
\* C21: a fetch() of an ATTACHED or LOADED proxy that gets an existing
\* snapshot replaces the cache by exactly the snapshot's fields, leaves the
\* proxy LOADED and leaves dirtyFields, deletedFields and pendingAtomicOps
\* empty (and the dirty flag down), whatever was pending before.
C21_FetchReplacesCache ==
  [][(state \in {ATTACHED, LOADED} /\ last'.op = "fetch"
        /\ last'.calls # <<>> /\ last'.calls[1].found) =>
        /\ last'.result = "ok"
        /\ FullPayload(data') = last'.calls[1].payload
        /\ state' = LOADED
        /\ dirty_fields' = {}
        /\ deleted_fields' = {}
        /\ atomic_ops' = EmptyOps
        /\ ~Proxy_is_dirty']_vars

\* A forced fetch has just replaced the cache of a proxy that held pending
\* changes.
C21_Witness ==
  /\ impl = "async"
  /\ last.op = "fetch"
  /\ last.result = "ok"
  /\ last.was = "dirty"
  /\ last.calls # <<>>
  /\ last.calls[1].found
  /\ data # EmptyData

\* ------------------------------------------------------------------ C22
\* C22 as stated: a delete() of an ATTACHED or LOADED proxy makes exactly
\* one transport delete; when it succeeds the proxy is DELETED, its cache
\* holds no field and its reference is still set.
C22_DeleteClearsCache ==
  [][(state \in {ATTACHED, LOADED} /\ last'.op = "delete") =>
        /\ Len(last'.calls) = 1
        /\ last'.calls[1].kind = "delete"
        /\ last'.result = "ok" =>
             /\ state' = DELETED
             /\ data' = EmptyData
             /\ doc_ref' = doc_ref
             /\ doc_ref' # NoRef]_vars

\* C22 as amended: a delete() of an ATTACHED or LOADED proxy makes exactly
\* one transport delete (direct, or queued on a batch); when it succeeds
\* the proxy is DELETED, its reference is still set, and its cache holds
\* the fields it held before.
C22_DeleteKeepsCache ==
  [][(state \in {ATTACHED, LOADED} /\ last'.op = "delete") =>
        /\ Len(last'.calls) = 1
        /\ last'.calls[1].kind = "delete"
        /\ last'.result = "ok" =>
             /\ state' = DELETED
             /\ data' = data
             /\ doc_ref' = doc_ref
             /\ doc_ref' # NoRef]_vars

\* A proxy that held fields has just been deleted.
C22_Witness ==
  /\ state = DELETED
  /\ last.op = "delete"
  /\ last.result = "ok"
  /\ data # EmptyData
  /\ doc_ref # NoRef

\* ------------------------------------------------------------------ C30
\* C30: to_dict() on an ATTACHED proxy raises, makes no transport call and
\* leaves the state, the cache and the pending changes as they were.
C30_ToDictBeforeLoadRaises ==
  [][(state = ATTACHED /\ last'.op = "to_dict") =>
        /\ last'.result = "raised"
        /\ last'.calls = <<>>
        /\ state' = ATTACHED
        /\ UNCHANGED <<data, dirty_fields, deleted_fields, atomic_ops, dirty,
                       doc_ref, batch>>]_vars

\* to_dict() was turned away by an ATTACHED proxy that holds a pending
\* write.
C30_Witness ==
  /\ state = ATTACHED
  /\ last.op = "to_dict"
  /\ last.result = "raised"
  /\ Proxy_is_dirty

\* ------------------------------------------------ firestore_constraints
\* Variant: the comparison with the limit is off by one.
validate_nesting_depth_off_by_one(depth) == ~(depth > MAX_NESTING_DEPTH)

\* validate_nesting_depth: TRUE when it returns, FALSE when it raises.
validate_nesting_depth(depth) == ~(depth >= MAX_NESTING_DEPTH)

\* name.strip()
RECURSIVE strip(_)
strip(name) ==
  IF name = <<>> THEN name
  ELSE IF name[1] \in Whitespace THEN strip(Tail(name))
  ELSE IF name[Len(name)] \in Whitespace
    THEN strip(SubSeq(name, 1, Len(name) - 1))
  ELSE name

\* validate_field_name: TRUE when it returns, FALSE when it raises.
validate_field_name(name) ==
  /\ name # <<>>
  /\ ~(/\ Len(name) >= 2
       /\ SubSeq(name, 1, 2) = <<"_", "_">>
       /\ SubSeq(name, Len(name) - 1, Len(name)) = <<"_", "_">>)
  /\ ~(name # strip(name))
  /\ ~(Len(name) > MAX_FIELD_NAME_BYTES)

\* ------------------------------------------------- proxied_map.py helpers
\* The outcome of a call that returns a value or raises.
Ok(val) == [ok |-> TRUE, val |-> val]
Raised == [ok |-> FALSE, val |-> NoValue]

RECURSIVE wrap_value(_, _, _)

\* Variant: each child is given the path of its own key.
ProxiedMap_init_sub_paths(d, field_path, depth) ==
  LET rs == [i \in 1..Len(d.kids) |->
               wrap_value(d.kids[i], field_path \o d.keys[i], depth + 1)]
  IN IF \A i \in 1..Len(d.kids) : validate_field_name(d.keys[i]) /\ rs[i].ok
       THEN Ok(ProxiedMap(d.keys, [i \in 1..Len(d.kids) |-> rs[i].val],
                          field_path, depth))
       ELSE Raised

\* ProxiedMap.__init__: validates each key and wraps each value.
ProxiedMap_init(d, field_path, depth) ==
  LET rs == [i \in 1..Len(d.kids) |->
               wrap_value(d.kids[i], field_path, depth + 1)]
  IN IF \A i \in 1..Len(d.kids) : validate_field_name(d.keys[i]) /\ rs[i].ok
       THEN Ok(ProxiedMap(d.keys, [i \in 1..Len(d.kids) |-> rs[i].val],
                          field_path, depth))
       ELSE Raised

\* ProxiedList.__init__: wraps each item.
ProxiedList_init(d, field_path, depth) ==
  LET rs == [i \in 1..Len(d.kids) |->
               wrap_value(d.kids[i], field_path, depth + 1)]
  IN IF \A i \in 1..Len(d.kids) : rs[i].ok
       THEN Ok(ProxiedList([i \in 1..Len(d.kids) |-> rs[i].val],
                           field_path, depth))
       ELSE Raised

\* _wrap_value
wrap_value(value, field_path, depth) ==
  IF ~validate_nesting_depth(depth) THEN Raised
  ELSE IF value.t = "dict" THEN ProxiedMap_init(value, field_path, depth)
  ELSE IF value.t = "list" THEN ProxiedList_init(value, field_path, depth)
  ELSE Ok(value)

RECURSIVE unwrap_value_keeps_lists(_)
\* Variant: list proxies are handed out as they are.
unwrap_value_keeps_lists(value) ==
  IF value.t = "ProxiedMap"
    THEN PlainDict(value.keys,
                   [i \in 1..Len(value.kids) |->
                      unwrap_value_keeps_lists(value.kids[i])])
    ELSE value

RECURSIVE unwrap_value(_)
\* _unwrap_value
unwrap_value(value) ==
  IF value.t = "ProxiedMap"
    THEN PlainDict(value.keys,
                   [i \in 1..Len(value.kids) |-> unwrap_value(value.kids[i])])
  ELSE IF value.t = "ProxiedList"
    THEN PlainList([i \in 1..Len(value.kids) |-> unwrap_value(value.kids[i])])
  ELSE value

\* --------------------------------------------- inputs of the nested model
Leaves ==
  {Scalar(v) : v \in {1, 2}} \cup {PlainDict(<<>>, <<>>), PlainList(<<>>)}

\* Plain dicts, lists and scalars nested at most n containers deep, one
\* item per container.
RECURSIVE PlainTrees(_)
PlainTrees(n) ==
  IF n = 0 THEN Leaves
  ELSE LET sub == PlainTrees(n - 1) IN
       Leaves \cup {PlainDict(<<k>>, <<x>>) : k \in Keys, x \in sub}
              \cup {PlainList(<<x>>) : x \in sub}

\* The values handed to _wrap_value: the nested ones and the containers of
\* two items.
WrapInputs ==
  PlainTrees(MaxArgDepth + 1) \cup
  UNION {{PlainDict(<<j, k>>, <<x, y>>) : x \in Leaves, y \in Leaves} :
           j \in {<<"a">>}, k \in {<<"b">>}}
    \cup {PlainList(<<x, y>>) : x \in Leaves, y \in Leaves}
StartDepths == {0} \cup ((MAX_NESTING_DEPTH - 3)..MAX_NESTING_DEPTH)

\* The document that owns the nested values: an AsyncFireObject that has
\* been loaded and holds no pending change.
RootLoadedClean ==
  /\ impl = "async"
  /\ state = LOADED
  /\ sync_client = FALSE
  /\ doc_ref \in ExplicitIds
  /\ sync_doc_ref = FALSE
  /\ parent_collection = TRUE
  /\ pending_document_id = NoId
  /\ data = EmptyData
  /\ dirty_fields = {}
  /\ deleted_fields = {}
  /\ atomic_ops = EmptyOps
  /\ dirty = FALSE
  /\ batch = 0
  /\ touched = {}
  /\ last = Last("init", NoName, "ok", <<>>)

NestedFrame ==
  UNCHANGED <<impl, state, doc_ref, sync_doc_ref, sync_client, data,
              deleted_fields, atomic_ops, dirty, parent_collection,
              pending_document_id, batch, touched, last, cached, inflight>>

\* ------------------------------------------------- wrapping and unwrapping
ValidationInit ==
  /\ RootLoadedClean
  /\ cont = NoValue
  /\ wrap_in \in [value : WrapInputs, depth : StartDepths]
  /\ clast = NoCall
  /\ cached = "absent"
  /\ inflight = NoWrite

\* _wrap_value(value, parent, TopField, depth)
WrapValue ==
  /\ clast.op \in {"init", "setattr"}
  /\ cont = NoValue
  /\ NestedFrame
  /\ UNCHANGED <<dirty_fields, wrap_in>>
  /\ LET r == wrap_value(wrap_in.value, TopField, wrap_in.depth) IN
     /\ cont' = r.val
     /\ clast' = CLast("wrap", IF r.ok THEN "ok" ELSE "constraint", <<>>,
                       <<>>, NoKey, NoValue, NoValue)

\* _unwrap_value(wrapped)
UnwrapValue ==
  /\ cont # NoValue
  /\ NestedFrame
  /\ UNCHANGED <<dirty_fields, wrap_in>>
  /\ cont' = unwrap_value(cont)
  /\ clast' = CLast("unwrap", "ok", <<>>, <<>>, NoKey, NoValue, NoValue)

\* BaseFireObject.__setattr__ with a name that need not be a valid field
\* name: the value is stored under the name and the name is tracked.
BaseFireObject_setattr_name(name) ==
  /\ state # DELETED
  /\ NestedFrame
  /\ UNCHANGED <<cont, wrap_in>>
  /\ dirty_fields' = dirty_fields \cup {name}
  /\ clast' = CLast("setattr", "ok", <<>>, <<>>, name, NoValue, NoValue)

ValidationNext ==
  \/ WrapValue
  \/ UnwrapValue
  \/ \E name \in Keys : BaseFireObject_setattr_name(name)

ValidationSpec == ValidationInit /\ [][ValidationNext]_vars

\* The number of container levels above the deepest value of x.
RECURSIVE Height(_)
Height(x) ==
  IF x.kids = <<>> THEN 0
  ELSE LET hs == {Height(x.kids[i]) : i \in 1..Len(x.kids)} IN
       1 + CHOOSE h \in hs : \A g \in hs : g <= h

\* Every key of every dict or map in x is in S.
RECURSIVE KeysWithin(_, _)
KeysWithin(x, S) ==
  /\ \A i \in 1..Len(x.keys) : x.keys[i] \in S
  /\ \A i \in 1..Len(x.kids) : KeysWithin(x.kids[i], S)

RECURSIVE IsPlain(_)
IsPlain(x) ==
  /\ x.t \in {"scalar", "dict", "list"}
  /\ \A i \in 1..Len(x.kids) : IsPlain(x.kids[i])

\* ------------------------------------------------------------------ C26
\* C26: a structure with valid keys wraps successfully exactly when its
\* deepest value (container or scalar) sits at a depth index of at most
\* MAX_NESTING_DEPTH - 1, whatever the starting depth and the mix of maps
\* and lists; one level deeper it raises the constraint error.
C26_DepthBoundary ==
  [][(clast'.op = "wrap" /\ KeysWithin(wrap_in.value, ValidKeys)) =>
        ((clast'.result = "ok") <=>
           (wrap_in.depth + Height(wrap_in.value) <= MAX_NESTING_DEPTH - 1))]_vars

\* A list inside a map whose deepest value sits at depth index 19 has been
\* wrapped.
C26_Witness ==
  /\ clast.op = "wrap"
  /\ clast.result = "ok"
  /\ cont.t = "ProxiedMap"
  /\ Height(cont) >= 2
  /\ cont.kids[1].t = "ProxiedList"
  /\ wrap_in.depth + Height(wrap_in.value) = MAX_NESTING_DEPTH - 1

ContainerDepth == MAX_NESTING_DEPTH - 3
Indexes == {0, 1, 2}
Slices == {<<0, 1>>, <<1, 2>>, <<0, 2>>}
MapKey == <<"a">>
ReservedKey == <<"_", "_", "x", "_", "_">>

\* Values handed to the single-value operations.
SetValues ==
  {Scalar(1), Scalar(2), PlainList(<<>>), PlainDict(<<MapKey>>, <<Scalar(1)>>),
   PlainDict(<<ReservedKey>>, <<Scalar(1)>>)}

\* Items handed to update(), values handed to extend() and to a slice
\* assignment: at most two of them.
UpdateItems ==
  [key : {MapKey, ReservedKey},
   value : {Scalar(2), PlainDict(<<MapKey>>, <<Scalar(1)>>)}]
ExtendValues ==
  {Scalar(1), PlainDict(<<MapKey>>, <<Scalar(2)>>),
   PlainDict(<<ReservedKey>>, <<Scalar(1)>>)}
UpTo2(S) ==
  {<<>>} \cup {<<x>> : x \in S} \cup {<<x, y>> : x \in S, y \in S}

\* The positions of the containers inside c, c itself included.
RECURSIVE ContainerPaths(_)
ContainerPaths(c) ==
  IF c.t \notin {"ProxiedMap", "ProxiedList"} THEN {}
  ELSE {<<>>} \cup
       UNION {{<<i>> \o p : p \in ContainerPaths(c.kids[i])} :
                i \in 1..Len(c.kids)}

RECURSIVE NodeAt(_, _)
NodeAt(c, pos) ==
  IF pos = <<>> THEN c ELSE NodeAt(c.kids[Head(pos)], Tail(pos))

RECURSIVE ReplaceAt(_, _, _)
ReplaceAt(c, pos, n) ==
  IF pos = <<>> THEN n
  ELSE [c EXCEPT !.kids[Head(pos)] =
          ReplaceAt(c.kids[Head(pos)], Tail(pos), n)]

\* The number of values in x, x included.
RECURSIVE Size(_)
Size(x) ==
  IF x.kids = <<>> THEN 1
  ELSE Size(Head(x.kids)) + Size([x EXCEPT !.kids = Tail(x.kids)])

IndexOf(keys, key) ==
  IF \E i \in 1..Len(keys) : keys[i] = key
    THEN CHOOSE i \in 1..Len(keys) : keys[i] = key
    ELSE 0
RemoveAt(s, i) == SubSeq(s, 1, i - 1) \o SubSeq(s, i + 1, Len(s))

\* The outcome of one container method: how it ended, the container as it
\* is afterwards, the paths it handed to _mark_field_dirty, the key it
\* stopped at and the value it returned.
CRes(result, node, marks, key, ret) ==
  [result |-> result, node |-> node, marks |-> marks, key |-> key,
   ret |-> ret]

\* BaseFireObject._mark_field_dirty(field_path)
mark_field_dirty(fields, field_path) == fields \cup {field_path}

\* ------------------------------------------------------------ ProxiedMap
\* ProxiedMap.__setitem__
ProxiedMap_setitem(self, key, value) ==
  IF ~validate_field_name(key)
    THEN CRes("constraint", self, <<>>, key, NoValue)
    ELSE LET w == wrap_value(value, self.path, self.depth + 1)
             i == IndexOf(self.keys, key)
         IN IF ~w.ok
              THEN CRes("constraint", self, <<>>, key, NoValue)
              ELSE CRes("ok",
                        IF i = 0
                          THEN [self EXCEPT !.keys = Append(@, key),
                                            !.kids = Append(@, w.val)]
                          ELSE [self EXCEPT !.kids[i] = w.val],
                        <<self.path>>, key, NoValue)

\* ProxiedMap.__delitem__
ProxiedMap_delitem(self, key) ==
  LET i == IndexOf(self.keys, key) IN
  IF i = 0
    THEN CRes("raised", self, <<>>, key, NoValue)
    ELSE CRes("ok",
              [self EXCEPT !.keys = RemoveAt(@, i), !.kids = RemoveAt(@, i)],
              <<self.path>>, key, NoValue)

\* ProxiedMap.clear
ProxiedMap_clear(self) ==
  CRes("ok", [self EXCEPT !.keys = <<>>, !.kids = <<>>], <<self.path>>,
       NoKey, NoValue)

\* Variant: a pop that removed nothing does not report a change.
ProxiedMap_pop_marks_on_removal(self, key, args) ==
  LET i == IndexOf(self.keys, key) IN
  IF i # 0
    THEN CRes("ok",
              [self EXCEPT !.keys = RemoveAt(@, i), !.kids = RemoveAt(@, i)],
              <<self.path>>, key, unwrap_value(self.kids[i]))
    ELSE IF args = <<>>
      THEN CRes("raised", self, <<>>, key, NoValue)
      ELSE CRes("ok", self, <<>>, key, unwrap_value(args[1]))

\* ProxiedMap.pop(key, *args): args holds the default when one is given.
ProxiedMap_pop(self, key, args) ==
  LET i == IndexOf(self.keys, key) IN
  IF i # 0
    THEN CRes("ok",
              [self EXCEPT !.keys = RemoveAt(@, i), !.kids = RemoveAt(@, i)],
              <<self.path>>, key, unwrap_value(self.kids[i]))
    ELSE IF args = <<>>
      THEN CRes("raised", self, <<>>, key, NoValue)
      ELSE CRes("ok", self, <<self.path>>, key, unwrap_value(args[1]))

\* ProxiedMap.popitem: the item inserted last.
ProxiedMap_popitem(self) ==
  LET n == Len(self.keys) IN
  IF n = 0
    THEN CRes("raised", self, <<>>, NoKey, NoValue)
    ELSE CRes("ok",
              [self EXCEPT !.keys = RemoveAt(@, n), !.kids = RemoveAt(@, n)],
              <<self.path>>, self.keys[n], unwrap_value(self.kids[n]))

\* Variant: setdefault reports a change whether or not the key was there.
ProxiedMap_setdefault_always_marks(self, key, default) ==
  LET i == IndexOf(self.keys, key) IN
  IF i = 0
    THEN IF ~validate_field_name(key)
      THEN CRes("constraint", self, <<>>, key, NoValue)
      ELSE LET w == wrap_value(default, self.path, self.depth + 1) IN
           IF ~w.ok
             THEN CRes("constraint", self, <<>>, key, NoValue)
             ELSE CRes("ok",
                       [self EXCEPT !.keys = Append(@, key),
                                    !.kids = Append(@, w.val)],
                       <<self.path>>, key, w.val)
    ELSE CRes("ok", self, <<self.path>>, key, self.kids[i])

\* ProxiedMap.setdefault
ProxiedMap_setdefault(self, key, default) ==
  LET i == IndexOf(self.keys, key) IN
  IF i = 0
    THEN IF ~validate_field_name(key)
      THEN CRes("constraint", self, <<>>, key, NoValue)
      ELSE LET w == wrap_value(default, self.path, self.depth + 1) IN
           IF ~w.ok
             THEN CRes("constraint", self, <<>>, key, NoValue)
             ELSE CRes("ok",
                       [self EXCEPT !.keys = Append(@, key),
                                    !.kids = Append(@, w.val)],
                       <<self.path>>, key, w.val)
    ELSE CRes("ok", self, <<>>, key, self.kids[i])

\* ProxiedMap.update: self[key] = value for each item in turn; an item that
\* raises ends the call with the earlier items applied.
RECURSIVE ProxiedMap_update(_, _, _, _)
ProxiedMap_update(self, items, marks, key) ==
  IF items = <<>> THEN CRes("ok", self, marks, key, NoValue)
  ELSE LET r == ProxiedMap_setitem(self, Head(items).key, Head(items).value)
       IN IF r.result # "ok"
            THEN CRes(r.result, self, marks, r.key, NoValue)
            ELSE ProxiedMap_update(r.node, Tail(items), marks \o r.marks,
                                   r.key)

\* ----------------------------------------------------------- ProxiedList
\* [_wrap_value(v, ...) for v in values]
WrapAll(self, values) ==
  LET ws == [i \in 1..Len(values) |->
               wrap_value(values[i], self.path, self.depth + 1)]
  IN IF \A i \in 1..Len(ws) : ws[i].ok
       THEN Ok([i \in 1..Len(ws) |-> ws[i].val])
       ELSE Raised

\* ProxiedList.__setitem__ with an integer index
ProxiedList_setitem(self, index, value) ==
  LET w == wrap_value(value, self.path, self.depth + 1) IN
  IF ~w.ok THEN CRes("constraint", self, <<>>, NoKey, NoValue)
  ELSE IF index >= Len(self.kids)
    THEN CRes("raised", self, <<>>, NoKey, NoValue)
    ELSE CRes("ok", [self EXCEPT !.kids[index + 1] = w.val], <<self.path>>,
              NoKey, NoValue)

\* ProxiedList.__setitem__ with the slice lo:hi
ProxiedList_setslice(self, lo, hi, values) ==
  LET ws == WrapAll(self, values)
      n == Len(self.kids)
      from == IF lo <= n THEN lo ELSE n
      to == IF hi >= n THEN n ELSE IF hi >= from THEN hi ELSE from
  IN IF ~ws.ok THEN CRes("constraint", self, <<>>, NoKey, NoValue)
     ELSE CRes("ok",
               [self EXCEPT !.kids = SubSeq(@, 1, from) \o ws.val
                                       \o SubSeq(@, to + 1, n)],
               <<self.path>>, NoKey, NoValue)

\* ProxiedList.__delitem__ with an integer index
ProxiedList_delitem(self, index) ==
  IF index >= Len(self.kids)
    THEN CRes("raised", self, <<>>, NoKey, NoValue)
    ELSE CRes("ok", [self EXCEPT !.kids = RemoveAt(@, index + 1)],
              <<self.path>>, NoKey, NoValue)

\* ProxiedList.insert
ProxiedList_insert(self, index, value) ==
  LET w == wrap_value(value, self.path, self.depth + 1)
      at == IF index <= Len(self.kids) THEN index ELSE Len(self.kids)
  IN IF ~w.ok THEN CRes("constraint", self, <<>>, NoKey, NoValue)
     ELSE CRes("ok",
               [self EXCEPT !.kids = SubSeq(@, 1, at) \o <<w.val>>
                                       \o SubSeq(@, at + 1, Len(@))],
               <<self.path>>, NoKey, NoValue)

\* ProxiedList.append
ProxiedList_append(self, value) ==
  LET w == wrap_value(value, self.path, self.depth + 1) IN
  IF ~w.ok THEN CRes("constraint", self, <<>>, NoKey, NoValue)
  ELSE CRes("ok", [self EXCEPT !.kids = Append(@, w.val)], <<self.path>>,
            NoKey, NoValue)

\* ProxiedList.extend
ProxiedList_extend(self, values) ==
  LET ws == WrapAll(self, values) IN
  IF ~ws.ok THEN CRes("constraint", self, <<>>, NoKey, NoValue)
  ELSE CRes("ok", [self EXCEPT !.kids = @ \o ws.val], <<self.path>>,
            NoKey, NoValue)

\* ProxiedList.pop(index)
ProxiedList_pop(self, index) ==
  IF index >= Len(self.kids)
    THEN CRes("raised", self, <<>>, NoKey, NoValue)
    ELSE CRes("ok", [self EXCEPT !.kids = RemoveAt(@, index + 1)],
              <<self.path>>, NoKey, unwrap_value(self.kids[index + 1]))

\* ProxiedList.remove: the first item that compares equal to value
\* (ProxiedMap.__eq__ / ProxiedList.__eq__ compare the contents).
ProxiedList_remove(self, value) ==
  LET hits == {i \in 1..Len(self.kids) : unwrap_value(self.kids[i]) = value}
  IN IF hits = {} THEN CRes("raised", self, <<>>, NoKey, NoValue)
     ELSE LET i == CHOOSE h \in hits : \A g \in hits : h <= g IN
          CRes("ok", [self EXCEPT !.kids = RemoveAt(@, i)], <<self.path>>,
               NoKey, NoValue)

\* ProxiedList.clear
ProxiedList_clear(self) ==
  CRes("ok", [self EXCEPT !.kids = <<>>], <<self.path>>, NoKey, NoValue)

\* ProxiedList.reverse
ProxiedList_reverse(self) ==
  CRes("ok",
       [self EXCEPT !.kids = [i \in 1..Len(@) |-> @[Len(@) + 1 - i]]],
       <<self.path>>, NoKey, NoValue)

RECURSIVE Sorted(_)
Sorted(s) ==
  IF s = <<>> THEN <<>>
  ELSE LET m == CHOOSE i \in 1..Len(s) :
                  /\ \A j \in 1..Len(s) : s[i].v <= s[j].v
                  /\ \A j \in 1..(i - 1) : s[j].v # s[i].v
       IN <<s[m]>> \o Sorted(RemoveAt(s, m))

\* ProxiedList.sort() of a list of numbers
ProxiedList_sort(self) ==
  CRes("ok", [self EXCEPT !.kids = Sorted(@)], <<self.path>>, NoKey, NoValue)

\* ----------------------------------------------------- the container model
\* A nested value of the field TopField of a loaded, clean document.
ContainerInit ==
  /\ RootLoadedClean
  /\ wrap_in = NoWrap
  /\ \E value \in WrapInputs :
       /\ KeysWithin(value, {MapKey})
       /\ value.t \in {"dict", "list"}
       /\ Size(value) <= MaxNodes
       /\ wrap_value(value, TopField, ContainerDepth).ok
       /\ cont = wrap_value(value, TopField, ContainerDepth).val
  /\ clast = NoCall
  /\ cached = "cont"
  /\ inflight = NoWrite

\* One call of a method on the container at pos.
ContainerCall(op, pos, r, arg) ==
  /\ NestedFrame
  /\ UNCHANGED wrap_in
  /\ cont' = ReplaceAt(cont, pos, r.node)
  /\ Size(cont') <= MaxNodes
  /\ dirty_fields' =
       LET marked[i \in 0..Len(r.marks)] ==
             IF i = 0 THEN dirty_fields
             ELSE mark_field_dirty(marked[i - 1], r.marks[i])
       IN marked[Len(r.marks)]
  /\ clast' = CLast(op, r.result, r.marks, pos, r.key, r.ret, arg)

Maps == {pos \in ContainerPaths(cont) : NodeAt(cont, pos).t = "ProxiedMap"}
Lists == {pos \in ContainerPaths(cont) : NodeAt(cont, pos).t = "ProxiedList"}

\* A successful save() of the owning document: _mark_clean().
SaveNested ==
  /\ dirty_fields # {}
  /\ mark_clean
  /\ UNCHANGED <<impl, state, doc_ref, sync_doc_ref, sync_client, data, dirty,
                 parent_collection, pending_document_id, batch, touched, last,
                 cont, wrap_in, cached, inflight>>
  /\ clast' = CLast("save", "ok", <<>>, <<>>, NoKey, NoValue, NoValue)

ContainerNext ==
  \/ \E pos \in Maps, key \in {MapKey} \cup InvalidKeys, value \in SetValues :
       /\ key = MapKey \/ value = Scalar(1)
       /\ ContainerCall("map_setitem", pos,
                        ProxiedMap_setitem(NodeAt(cont, pos), key, value), value)
  \/ \E pos \in Maps, key \in {MapKey} :
       ContainerCall("map_delitem", pos,
                     ProxiedMap_delitem(NodeAt(cont, pos), key), NoValue)
  \/ \E pos \in Maps :
       ContainerCall("map_clear", pos, ProxiedMap_clear(NodeAt(cont, pos)),
                     NoValue)
  \/ \E pos \in Maps, key \in {MapKey}, args \in {<<>>, <<Scalar(2)>>} :
       ContainerCall("map_pop", pos,
                     ProxiedMap_pop(NodeAt(cont, pos), key, args),
                     IF args = <<>> THEN NoValue ELSE args[1])
  \/ \E pos \in Maps :
       ContainerCall("map_popitem", pos, ProxiedMap_popitem(NodeAt(cont, pos)),
                     NoValue)
  \/ \E pos \in Maps, key \in {MapKey} \cup InvalidKeys, default \in SetValues :
       /\ key = MapKey \/ default = Scalar(1)
       /\ ContainerCall("map_setdefault", pos,
                        ProxiedMap_setdefault(NodeAt(cont, pos), key, default),
                        default)
  \/ \E pos \in Maps, items \in UpTo2(UpdateItems) :
       ContainerCall("map_update", pos,
                     ProxiedMap_update(NodeAt(cont, pos), items, <<>>, NoKey),
                     NoValue)
  \/ \E pos \in Lists, index \in Indexes, value \in SetValues :
       ContainerCall("list_setitem", pos,
                     ProxiedList_setitem(NodeAt(cont, pos), index, value), value)
  \/ \E pos \in Lists, slice \in Slices, values \in UpTo2(ExtendValues) :
       ContainerCall("list_setslice", pos,
                     ProxiedList_setslice(NodeAt(cont, pos), slice[1], slice[2],
                                          values),
                     NoValue)
  \/ \E pos \in Lists, index \in Indexes :
       ContainerCall("list_delitem", pos,
                     ProxiedList_delitem(NodeAt(cont, pos), index), NoValue)
  \/ \E pos \in Lists, index \in Indexes, value \in SetValues :
       ContainerCall("list_insert", pos,
                     ProxiedList_insert(NodeAt(cont, pos), index, value), value)
  \/ \E pos \in Lists, value \in SetValues :
       ContainerCall("list_append", pos,
                     ProxiedList_append(NodeAt(cont, pos), value), value)
  \/ \E pos \in Lists, values \in UpTo2(ExtendValues) :
       ContainerCall("list_extend", pos,
                     ProxiedList_extend(NodeAt(cont, pos), values), NoValue)
  \/ \E pos \in Lists, index \in Indexes :
       ContainerCall("list_pop", pos, ProxiedList_pop(NodeAt(cont, pos), index),
                     NoValue)
  \/ \E pos \in Lists, value \in SetValues :
       ContainerCall("list_remove", pos,
                     ProxiedList_remove(NodeAt(cont, pos), value), value)
  \/ \E pos \in Lists :
       ContainerCall("list_clear", pos, ProxiedList_clear(NodeAt(cont, pos)),
                     NoValue)
  \/ \E pos \in Lists :
       ContainerCall("list_reverse", pos,
                     ProxiedList_reverse(NodeAt(cont, pos)), NoValue)
  \/ \E pos \in Lists :
       /\ \A i \in 1..Len(NodeAt(cont, pos).kids) :
            NodeAt(cont, pos).kids[i].t = "scalar"
       /\ ContainerCall("list_sort", pos, ProxiedList_sort(NodeAt(cont, pos)),
                        NoValue)
  \/ SaveNested

ContainerSpec == ContainerInit /\ [][ContainerNext]_vars

ContainerOps ==
  {"map_setitem", "map_delitem", "map_clear", "map_pop", "map_popitem",
   "map_setdefault", "map_update", "list_setitem", "list_setslice",
   "list_delitem", "list_insert", "list_append", "list_extend", "list_pop",
   "list_remove", "list_clear", "list_reverse", "list_sort"}

C24_EveryMutatorMarks ==
  [][(clast'.op \in ContainerOps /\ clast'.result = "ok") =>
        clast'.marks # <<>>]_vars

\* C24: every mutating operation that returns normally, other than a
\* setdefault on a key that is present and an update with no items, has
\* reported the field path of its container as changed, whether or not the
\* contents changed.
C24_MutatorsMarkExceptNoops ==
  [][(/\ clast'.op \in ContainerOps
      /\ clast'.result = "ok"
      /\ ~(/\ clast'.op = "map_setdefault"
           /\ IndexOf(NodeAt(cont, clast'.pos).keys, clast'.key) # 0)
      /\ ~(clast'.op = "map_update" /\ clast'.key = NoKey)) =>
        /\ clast'.marks # <<>>
        /\ clast'.marks[1] = NodeAt(cont, clast'.pos).path]_vars

\* A list of one item has been reversed: the contents are as before and
\* the field has been reported as changed.
C24_Witness ==
  /\ clast.op = "list_reverse"
  /\ clast.result = "ok"
  /\ Len(NodeAt(cont, clast.pos).kids) = 1
  /\ clast.marks = <<TopField>>

\* ------------------------------------------------------------------ C25
\* C25: setdefault on a key that is present returns the stored value,
\* leaves the map as it is and reports nothing; on a missing key, when it
\* returns, it has stored the wrapped default as the last item, returned
\* it and reported the field as changed.
C25_SetDefault ==
  [][clast'.op = "map_setdefault" =>
        LET self == NodeAt(cont, clast'.pos)
            after == NodeAt(cont', clast'.pos)
            i == IndexOf(self.keys, clast'.key)
        IN IF i # 0
             THEN /\ clast'.result = "ok"
                  /\ clast'.ret = self.kids[i]
                  /\ cont' = cont
                  /\ clast'.marks = <<>>
             ELSE clast'.result = "ok" =>
                    /\ after.keys = Append(self.keys, clast'.key)
                    /\ after.kids = Append(self.kids, clast'.ret)
                    /\ unwrap_value(clast'.ret) = clast'.arg
                    /\ ~IsPlain(clast'.ret) \/ clast'.ret.t = "scalar"
                    /\ clast'.marks = <<TopField>>]_vars

\* setdefault has returned the stored value of a key that was present, on
\* a clean document.
C25_Witness ==
  /\ clast.op = "map_setdefault"
  /\ clast.result = "ok"
  /\ clast.marks = <<>>
  /\ NodeAt(cont, clast.pos).kids # <<>>
  /\ clast.ret = NodeAt(cont, clast.pos).kids[1]
  /\ clast.ret # clast.arg
  /\ dirty_fields = {}

\* ------------------------------------------------------------------ C27
\* C27: a name that is empty, reserved or padded with whitespace is
\* rejected with a constraint error by the assignment of a top-level
\* field, by setitem, setdefault and update of a nested map and by the
\* wrapping of a dict that holds it, and is never stored.
C27_InvalidNameRejected ==
  [][/\ (clast'.op \in {"setattr", "map_setitem", "map_setdefault",
                          "map_update"}
           /\ ~validate_field_name(clast'.key)) =>
          /\ clast'.result = "constraint"
          /\ clast'.key \notin dirty_fields'
     /\ (clast'.op = "wrap" /\ ~KeysWithin(wrap_in.value, ValidKeys)) =>
          /\ clast'.result = "constraint"
          /\ cont' = NoValue]_vars

\* ------------------------------------------------------------------ C28
\* C28: a call that is rejected with a constraint error leaves the
\* contents of the container exactly as they were before the call and
\* reports no field of the document as changed.
C28_RejectedCallLeavesNothing ==
  [][clast'.result = "constraint" =>
        /\ cont' = cont
        /\ clast'.marks = <<>>]_vars

C32_DeleteField ==
  [][(last'.op = "delattr" /\ state # DELETED) =>
        IF data[last'.name] = Absent
          THEN /\ last'.result = "raised"
               /\ UNCHANGED <<data, dirty_fields, deleted_fields, dirty>>
          ELSE /\ last'.result = "ok"
               /\ data' = [data EXCEPT ![last'.name] = Absent]
               /\ impl = "async" =>
                    /\ deleted_fields' = deleted_fields \cup {last'.name}
                    /\ dirty_fields' = dirty_fields \ {last'.name}]_vars

\* A field that was dirty has been deleted.
C32_Witness ==
  /\ impl = "async"
  /\ last.op = "delattr"
  /\ last.result = "ok"
  /\ last.was = "dirty"
  /\ last.name \in deleted_fields
  /\ last.name \notin dirty_fields
  /\ data[last.name] = Absent


\* --------------------- containers held across calls on their document
\* The caller keeps the container cont it read from the field TopField of
\* a LOADED document, and goes on using it while the document's field is
\* deleted or replaced, or the document itself is deleted.  Containers keep
\* a reference to the document (_parent) and the _field_path they were
\* built with.
OtherField == <<"t">>

\* Existing proxies the caller hands in: a container read from the field
\* OtherField of the same document, or one read from inside cont.
HeldProxies ==
  {ProxiedList(<<>>, OtherField, 1)}
    \cup {NodeAt(cont, pos) : pos \in ContainerPaths(cont) \ {<<>>}}

\* BaseFireObject.__delattr__(TopField)
BaseFireObject_delattr_top ==
  /\ UNCHANGED <<impl, state, doc_ref, sync_doc_ref, sync_client, data,
                 atomic_ops, dirty, parent_collection, pending_document_id,
                 batch, touched, last, cont, wrap_in, inflight>>
  /\ IF state = DELETED \/ cached = "absent"
       THEN /\ UNCHANGED <<cached, dirty_fields, deleted_fields>>
            /\ clast' = CLast("delattr", "raised", <<>>, <<>>, TopField,
                              NoValue, NoValue)
       ELSE /\ cached' = "absent"
            /\ deleted_fields' = deleted_fields \cup {TopField}
            /\ dirty_fields' = dirty_fields \ {TopField}
            /\ clast' = CLast("delattr", "ok", <<>>, <<>>, TopField,
                              NoValue, NoValue)

\* BaseFireObject.__setattr__(TopField, value) with a scalar value
BaseFireObject_setattr_top(value) ==
  /\ UNCHANGED <<impl, state, doc_ref, sync_doc_ref, sync_client, data,
                 atomic_ops, dirty, parent_collection, pending_document_id,
                 batch, touched, last, cont, wrap_in, inflight>>
  /\ IF ~validate_not_deleted
       THEN /\ UNCHANGED <<cached, dirty_fields, deleted_fields>>
            /\ clast' = CLast("setattr", "raised", <<>>, <<>>, TopField,
                              NoValue, value)
       ELSE /\ cached' = "other"
            /\ dirty_fields' = dirty_fields \cup {TopField}
            /\ deleted_fields' = deleted_fields \ {TopField}
            /\ clast' = CLast("setattr", "ok", <<>>, <<>>, TopField,
                              NoValue, value)

HeldOps == {"map_setitem", "map_delitem", "list_append", "list_pop"}

HeldNext ==
  \/ BaseFireObject_delattr_top
  \/ \E value \in {Scalar(1)} : BaseFireObject_setattr_top(value)
  \/ \E via \in {"direct"} : AsyncFireObject_delete(via)
  \/ \E pos \in Maps, value \in {Scalar(2)} \cup HeldProxies :
       ContainerCall("map_setitem", pos,
                     ProxiedMap_setitem(NodeAt(cont, pos), MapKey, value),
                     value)
  \/ \E pos \in Maps :
       ContainerCall("map_delitem", pos,
                     ProxiedMap_delitem(NodeAt(cont, pos), MapKey), NoValue)
  \/ \E pos \in Lists, value \in {Scalar(2)} \cup HeldProxies :
       ContainerCall("list_append", pos,
                     ProxiedList_append(NodeAt(cont, pos), value), value)
  \/ \E pos \in Lists, index \in Indexes :
       ContainerCall("list_pop", pos, ProxiedList_pop(NodeAt(cont, pos), index),
                     NoValue)
  \/ SaveNested

HeldSpec == ContainerInit /\ [][HeldNext]_vars

\* ----------------------------------------------------------------- C34
\* C34: while the proxy is not DELETED, every name in dirtyFields is a key
\* of the cache and no name in deletedFields is a key of the cache, also
\* after a container read from a field is mutated once the field has been
\* deleted or replaced.
C34_TrackedNamesMatchCache ==
  state # DELETED =>
    /\ TopField \in dirty_fields => cached # "absent"
    /\ TopField \in deleted_fields => cached = "absent"

\* ----------------------------------------------------------------- C35
\* C35: every container reachable from the top-level field TopField at
\* nesting level k carries the field path TopField and the depth k, never
\* above the limit, and reports its mutations to TopField; also when an
\* existing proxy container was placed into it.
C35_ContainersRecordPathAndDepth ==
  /\ \A pos \in ContainerPaths(cont) :
       /\ NodeAt(cont, pos).path = TopField
       /\ NodeAt(cont, pos).depth = ContainerDepth + Len(pos)
       /\ NodeAt(cont, pos).depth <= MAX_NESTING_DEPTH
  /\ (clast.op \in HeldOps /\ clast.result = "ok") =>
       clast.marks = <<TopField>>

\* ----------------------------------------------------------------- C39
\* C39: once the proxy is DELETED, mutating a container read before the
\* delete changes neither dirtyFields, deletedFields nor the pending
\* atomic operations, and is_dirty() does not become true.
C39_DeletedProxyStaysUntouched ==
  [][(state = DELETED /\ clast'.op \in HeldOps) =>
        /\ UNCHANGED <<dirty_fields, deleted_fields, atomic_ops>>
        /\ is_dirty' = is_dirty]_vars

\* ------------------------------- save() interleaved with other coroutines
\* AsyncFireObject.save awaits the transport write; while it is suspended
\* the event loop can run another coroutine that mutates the same proxy.
\* save() up to its await, with a direct write:
AsyncFireObject_save_suspend(doc_id) ==
  /\ impl = "async"
  /\ inflight = NoWrite
  /\ UNCHANGED <<impl, sync_client, touched, cont, wrap_in, clast, cached>>
  /\ CASE ~validate_not_deleted ->
            Raise("save", NoName) /\ UNCHANGED inflight
       [] state = DETACHED /\ ~parent_collection ->
            Raise("save", NoName) /\ UNCHANGED inflight
       [] state = DETACHED /\ parent_collection ->
            \E ref \in MintedRefs(doc_id) :
              /\ doc_ref' = ref
              /\ sync_doc_ref' = sync_client
              /\ UNCHANGED <<state, data, dirty_fields, deleted_fields,
                             atomic_ops, dirty, parent_collection,
                             pending_document_id, batch>>
              /\ inflight' = Suspended(Call("set", "direct",
                                            prepare_data_for_storage, FALSE),
                                       build_update_dict)
              /\ last' = Last("save", doc_id, "suspended", <<>>)
       [] state = LOADED /\ ~is_dirty ->
            /\ UNCHANGED proxyVars
            /\ UNCHANGED <<batch, inflight>>
            /\ last' = Last("save", NoName, "noop", <<>>)
       [] OTHER ->
            /\ UNCHANGED proxyVars
            /\ UNCHANGED batch
            /\ inflight' =
                 Suspended(IF state = LOADED
                             THEN Call("update", "direct", build_update_dict,
                                       FALSE)
                             ELSE Call("set", "direct",
                                       prepare_data_for_storage, FALSE),
                           build_update_dict)
            /\ last' = Last("save", NoName, "suspended", <<>>)

\* save() from the point where the awaited write returns or raises.
AsyncFireObject_save_resume ==
  /\ impl = "async"
  /\ inflight # NoWrite
  /\ UNCHANGED <<impl, sync_client, touched, cont, wrap_in, clast, cached>>
  /\ inflight' = NoWrite
  /\ UNCHANGED <<doc_ref, sync_doc_ref, data, dirty, parent_collection,
                 pending_document_id, batch>>
  /\ \E ok \in BOOLEAN :
       LET calls == <<[inflight.call EXCEPT !.accepted = ok]>> IN
       IF ok
         THEN /\ state' = IF inflight.call.kind = "set" THEN LOADED ELSE state
              /\ mark_clean
              /\ last' = Last("save", NoName, "ok", calls)
         ELSE /\ UNCHANGED <<state, dirty_fields, deleted_fields, atomic_ops>>
              /\ last' = Last("save", NoName, "failed", calls)

ConcurrentInit == Init /\ impl = "async"

ConcurrentNext ==
  \/ \E doc_id \in ExplicitIds \cup {NoId} : AsyncFireObject_save_suspend(doc_id)
  \/ AsyncFireObject_save_resume
  \/ \E name \in Fields, value \in Values : BaseFireObject_setattr(name, value)
  \/ \E name \in Fields : BaseFireObject_delattr(name)
  \/ \E kind \in {"Increment"}, field \in Fields, value \in AtomicArgs :
       BaseFireObject_atomic(kind, field, value)

ConcurrentSpec == ConcurrentInit /\ [][ConcurrentNext]_vars

\* The fields whose pending change the suspended write does not carry:
\* they were mutated after the payload was built.
MutatedWhileSuspended ==
  {f \in Fields : /\ build_update_dict[f] # NoEntry
                  /\ build_update_dict[f] # inflight.plan[f]}

\* ----------------------------------------------------------------- C37
\* C37: a field mutated by another coroutine while save() is suspended in
\* its transport write is still pending once the save has completed.
C37_ConcurrentMutationKept ==
  [][(inflight # NoWrite /\ inflight' = NoWrite) =>
        MutatedWhileSuspended \subseteq PendingNames']_vars

\* C37 (amended): save() gives no protection against a mutation made while
\* it is suspended: when the write is accepted it clears dirtyFields,
\* deletedFields and the pending atomic operations whole and leaves the
\* cache alone; when the write fails every pending change stays.
C37_ResumedSaveClearsAllPending ==
  [][(inflight # NoWrite /\ inflight' = NoWrite) =>
        /\ data' = data
        /\ IF last'.result = "ok"
             THEN PendingNames' = {} /\ state' = LOADED
             ELSE UNCHANGED <<dirty_fields, deleted_fields, atomic_ops,
                              state>>]_vars

\* A save has completed although the cache holds, for a field the write
\* carried, a value other than the one written: the field was set again
\* while the save was suspended, and nothing is pending.
C37_Witness ==
  /\ last.op = "save"
  /\ last.result = "ok"
  /\ inflight = NoWrite
  /\ PendingNames = {}
  /\ \E f \in Fields :
       /\ last.calls[1].payload[f].kind = "value"
       /\ data[f] # Absent
       /\ last.calls[1].payload[f] # ValueEntry(data[f])
\* ----------------------------------------------------------------- C33
\* C33: the synchronous proxy (fire_object.py) and the asynchronous proxy
\* hand the transport the same operation for the same lifecycle state and
\* the same pending changes: save() issues one set for a DETACHED or
\* ATTACHED proxy and one update whose payload names exactly the fields
\* touched since the last load or save for a LOADED proxy.
C33_SyncAsyncSameTransportOps ==
  [][(impl \in {"sync", "async"} /\ last'.op = "save"
        /\ last'.calls # <<>>) =>
        /\ Len(last'.calls) = 1
        /\ last'.calls[1].kind = IF state = LOADED THEN "update" ELSE "set"
        /\ state = LOADED => OpKeys(last'.calls[1].payload) = Touched]_vars

\* ----------------------------------------------------------------- C36
\* C36: while the proxy is ATTACHED, reading a field does not discard a
\* pending field write: every field set since the proxy was attached still
\* reads the value it was given and is still tracked as changed.
C36_ReadKeepsPendingWrites ==
  [][(state = ATTACHED /\ last'.op = "getattr") =>
        \A f \in Touched :
          data[f] # Absent => (data'[f] = data[f] /\ f \in Touched')]_vars

\* ----------------------------------------------------------------- C38
\* C38: the identity is minted at most once: once the proxy has a document
\* reference, no later call replaces or clears it.
C38_IdentityNeverChanges ==
  [][doc_ref # NoRef => doc_ref' = doc_ref]_vars

\* ------------------------------------------------- save() under retry
\* A caller that holds a proxy with pending changes and calls save() again
\* after every failure, doing nothing else with the proxy.  The proxy
\* starts in any state a sequence of field writes, field deletions and
\* atomic operations can leave it in; a DETACHED one has its collection.
RetryInit ==
  /\ impl = "async"
  /\ state \in {DETACHED, ATTACHED, LOADED}
  /\ sync_client = FALSE
  /\ sync_doc_ref = FALSE
  /\ doc_ref \in (IF state = DETACHED THEN {NoRef} ELSE ExplicitIds)
  /\ parent_collection = TRUE
  /\ pending_document_id = NoId
  /\ data \in [Fields -> Values \cup {Absent}]
  /\ dirty_fields \in SUBSET {f \in Fields : data[f] # Absent}
  /\ deleted_fields \in SUBSET {f \in Fields : data[f] = Absent}
  /\ atomic_ops \in [Fields -> {NoEntry, Increment(1)}]
  /\ is_dirty
  /\ dirty = FALSE
  /\ batch = 0
  /\ touched = {}
  /\ last = Last("init", NoName, "ok", <<>>)
  /\ cont = NoValue
  /\ wrap_in = NoWrap
  /\ clast = NoCall
  /\ cached = "absent"
  /\ inflight = NoWrite

RetryNext ==
  \E doc_id \in ExplicitIds \cup {NoId} : AsyncFireObject_save(doc_id, "direct")

\* The caller goes on retrying and the transport accepts a write in the end.
RetrySpec ==
  RetryInit /\ [][RetryNext]_vars /\ SF_vars(RetryNext /\ last'.result = "ok")

\* The payload of a write of the given kind carries every pending change:
\* the value of each dirty field, the removal of each deleted field (a
\* delete sentinel in an update, no entry in a full set) and the sentinel
\* of each pending atomic operation.
WriteCarries(kind, payload) ==
  \A f \in Fields :
    build_update_dict[f] # NoEntry =>
      payload[f] = IF kind = "set" /\ build_update_dict[f] = DELETE_FIELD
                     THEN NoEntry ELSE build_update_dict[f]

\* ----------------------------------------------------------------- C40
\* C40: when save() of a dirty proxy is retried after each transport
\* failure and the transport accepts a write in the end, the proxy
\* eventually is LOADED and not dirty, the accepted write carries the
\* pending changes, and no second write is accepted.
C40_RetryReachesCleanLoaded ==
  /\ <>(state = LOADED /\ ~is_dirty)
  /\ [][(last'.op = "save" /\ last'.calls # <<>> /\ last'.calls[1].accepted) =>
          /\ Len(last'.calls) = 1
          /\ WriteCarries(last'.calls[1].kind, last'.calls[1].payload)
          /\ ~(last.op = "save" /\ last.result \in {"ok", "noop"})]_vars

====
